---- MODULE Spec2Model ----
(***************************************************************************)
(* stripes-hub: session bootstrap, logout and module-discovery resolution. *)
(*                                                                         *)
(* The specifications share one set of variables:                          *)
(*   SpecLogout       - logout() calls racing in the tabs of one browser   *)
(*   Spec             - one run of the landing initializer followed by     *)
(*                      initStripes and loadStripes                        *)
(*   SpecResolve      - entitlement/discovery reconciliation               *)
(*   SpecSession      - createSession and setTokenExpiry over the store    *)
(*   SpecNormalize    - spreadUserWithPerms                                *)
(*   SpecTenant       - the versions of getLoginTenant                     *)
(*   SpecExchange     - the code exchange and the chain of initSession     *)
(*   SpecUri          - the redirect URI through the identity provider     *)
(*   SpecAssets       - loadStripes on a build manifest                    *)
(*   SpecEntitlements - fetchEntitlements on split descriptors             *)
(*   SpecLogoutExpiry - logout() racing setTokenExpiry                     *)
(*   SpecBadResponse  - processBadResponse                                 *)
(***************************************************************************)
EXTENDS Integers, Sequences, FiniteSets, TLC

(***************************************************************************)
(* Bounds                                                                  *)
(***************************************************************************)
\* logout() invocations made during one login, over all tabs
MaxLogoutCalls == 3

\* entries in the backend's discovery listing
MaxDiscovery == 2

LogoutCalls == 1..MaxLogoutCalls
Tabs == {"tab1", "tab2"}

(***************************************************************************)
(* Storage keys and values                                                 *)
(***************************************************************************)
SESSION_NAME == "okapiSess"
IS_LOGGING_OUT == "@folio/stripes/core::Logout"
RTR_TIMEOUT_EVENT == "@folio/stripes/core::RTRIdleSessionTimeout"
TENANT_LOCAL_STORAGE_KEY == "tenant"
LOGIN_RESPONSE == "loginResponse"

\* what getItem() answers for a key that is not stored
NULL == "null"

\* an optional structured value of the durable tier: <<>> or <<value>>
None == <<>>
Some(v) == <<v>>
IsSome(o) == Len(o) > 0
Get(o) == o[1]

LocalKeys == {SESSION_NAME, RTR_TIMEOUT_EVENT, TENANT_LOCAL_STORAGE_KEY}

VARIABLES
  \* ---- configuration
  tenantOptions,     \* Object.values(config.tenantOptions): a sequence of tenants
  \* ---- storage tiers
  localStorage,      \* shared, event emitting: [LocalKeys -> string | NULL]
  sessionStorage,    \* per tab: [Tabs -> IS_LOGGING_OUT value]
  forageSession,     \* localforage[SESSION_NAME]: None | Some(session)
  forageLoginResponse, \* localforage[LOGIN_RESPONSE]: None | Some(payload)
  location,          \* per tab: where window.location points
  \* ---- logout()
  lpc,               \* per logout call: its position
  ltab,              \* per logout call: the tab it runs in
  logoutRequests,    \* POSTs to /authn/logout issued so far
  \* ---- entitlement/discovery resolution
  discoveryUrl,      \* config.discoveryUrl: NULL or a url
  entitlementResponse, \* json.applicationDescriptors of /entitlements/{tenant}/applications
  deployed,          \* the backend's discovery entries
  entitlement,       \* result of fetchEntitlements
  discovery,         \* result of fetchDiscovery: the reconciled manifest
  queried,           \* discovery entries the queries issued so far have returned
  handlerCalls,      \* ids the orphan handler was called with, in order
  forageCache,       \* localforage: the keys written by initStripes
  resolver,          \* "hook" (loginServices.js) | "hub" (StripesHub.js)
  rpc,               \* position of the resolution
  \* ---- one run of the landing initializer (useInitSession) in tab1
  ipc,               \* position of the query function
  session,           \* what getSession() answered: None | Some(session)
  selfOutcome,       \* "none" | "ok" | "status" | "network"
  events,            \* requests, responses, redirects and alerts, in order
  pathname,          \* globalThis.location.pathname when the run starts
  unauthorizedPath,  \* the path cached for the return from login, or NULL
  pendingApps,       \* discovery queries still to be made, the current one first
  pendingWrites,     \* cache entries still to be written, the current one first
  injected,          \* assets appended to the document, in order
  pageAlive,         \* FALSE once the navigation away has unloaded the page
  lastFetch,         \* how the latest request of ffetch settled, "none" before
  \* ---- the session store: one createSession and one setTokenExpiry call
  now,               \* Date.now(), in units of the model's clock
  cpc,               \* position of createSession
  cArgs,             \* its arguments: None | Some([tenant, token, data])
  cCalledAt,         \* Date.now() when createSession was called
  cInitTenant,       \* the tenant it called initStripes with, NULL before the call
  cSession,          \* the session object it builds: None | Some(record)
  cRead,             \* what its localforage.getItem(SESSION_NAME) answered
  tpc,               \* position of setTokenExpiry
  tArg,              \* its argument te: None | Some([atExpires, rtExpires])
  tRead,             \* None until its getSession() answered, then Some(answer)
  \* ---- one call of spreadUserWithPerms
  permInput,         \* permissions.permissions of the payload: None | Some(list)
  permOutput,        \* the perms it answered: None | Some(mapping)
  \* ---- the page's URL and the tenant resolver
  search,            \* location.search: [tenant, client_id, code], NULL when absent
  stripesOkapi,      \* the global utils.js reads: "undeclared" | "undefined" | "set"
  tenantGetter,      \* which getLoginTenant runs
  loginTenant,       \* what it answered: None | Some(result)
  \* ---- the code exchange of the callback route (useExchangeCode)
  exchanger,         \* "checked" (tests response.ok) | "unchecked"
  xpc,               \* position of the exchange
  tokenRequests,     \* requests sent to /authn/token so far
  tokenResponse,     \* the response being read: None | Some([ok, body])
  initSessionCalls,  \* the arguments initSession was called with, in order
  xResult,           \* how the exchange ended: None | Some([threw, value])
  chain,             \* position of the promise chain initSession builds
  selfRequests,      \* requests sent to /users-keycloak/_self so far
  \* ---- the redirect URI on its way through the identity provider
  uriTenant,         \* name of the tenant the login is for, as characters
  uriClientId,       \* its client id, as characters
  uriBuilder,        \* which exchange builds the URI: "hook" | "class"
  uripc,             \* "login" | "atProvider" | "callback" | "exchanged"
  authorizeUri,      \* the redirect_uri the provider decoded: None | Some(uri)
  callbackSearch,    \* location.search of the callback page, as characters
  exchangeUri,       \* the redirect-uri the token endpoint decoded
  \* ---- one call of loadStripes on a build manifest
  manifest,          \* manifest.entrypoints: per entry point its imports
  elements,          \* the elements it appended: None | Some(sequence)
  \* ---- one call of processBadResponse
  badResponse,       \* the failed response: [status, body]
  defaultClientError, \* the caller's default error, NULL when not given
  actionPayload      \* what the call resolved to: None | Some(value)

configVars == <<tenantOptions, discoveryUrl>>
storageVars == <<localStorage, sessionStorage, forageSession, forageLoginResponse>>
logoutVars == <<lpc, ltab, logoutRequests>>
backendVars == <<entitlementResponse, deployed>>
resolveVars == <<entitlement, discovery, queried, handlerCalls, forageCache>>
reconVars == <<resolver, rpc>>
landingVars == <<ipc, session, selfOutcome, events, pathname, unauthorizedPath,
                 pendingApps, pendingWrites, injected, pageAlive, lastFetch>>
sessionVars == <<now, cpc, cArgs, cCalledAt, cInitTenant, cSession, cRead, tpc, tArg, tRead,
                 permInput, permOutput>>
tenantVars == <<search, stripesOkapi, tenantGetter, loginTenant>>
exchangeVars == <<exchanger, xpc, tokenRequests, tokenResponse, initSessionCalls, xResult,
                  chain, selfRequests>>
uriVars == <<uriTenant, uriClientId, uriBuilder, uripc, authorizeUri, callbackSearch,
             exchangeUri>>
assetVars == <<manifest, elements>>
errorVars == <<badResponse, defaultClientError, actionPayload>>
loginVars == <<tenantVars, exchangeVars, uriVars, assetVars, errorVars>>
vars == <<configVars, storageVars, location, logoutVars, backendVars, resolveVars,
          reconVars, landingVars, sessionVars, loginVars>>

otherThanLogout ==
  <<backendVars, resolveVars, reconVars, landingVars, sessionVars, loginVars>>

(***************************************************************************)
(* Configuration and sessions                                              *)
(***************************************************************************)
Diku == [name |-> "diku", clientId |-> "diku-app"]
Other == [name |-> "other", clientId |-> "other-app"]

TenantConfigs == {<<>>, <<Diku>>, <<Diku, Other>>}

\* getCurrentTenant of StripesHub: the first configured tenant, or undefined
HasCurrentTenant == Len(tenantOptions) > 0

LoginUrl == "authorization-endpoint"
AppRoot == "/"
\* the callback route of the identity provider
OidcLandingPath == "/oidc-landing"

Session(auth, uid, tenant) ==
  [isAuthenticated |-> auth, userId |-> uid, tenant |-> tenant]

StoredSession == Session(TRUE, "u1", "diku")

LocalLoggedIn ==
  [k \in LocalKeys |->
     CASE k = SESSION_NAME -> "true"
       [] k = TENANT_LOCAL_STORAGE_KEY -> "diku"
       [] OTHER -> NULL]
LocalEmpty == [k \in LocalKeys |-> NULL]

(***************************************************************************)
(* logout()                                                                *)
(***************************************************************************)
LogoutInFlight == {"awaitFetch", "removingSession", "removingResponse"}

\* lines 360-373: the synchronous head of the try block, up to the first await
LogoutClearShared ==
  [k \in LocalKeys |-> NULL]

\* lines 336-340: the private sentinel check
LogoutAlreadyStarted(t) == sessionStorage[t] # NULL

\* lines 347: the shared sentinel check guarding the backend call
LogoutShouldCallBackend == localStorage[SESSION_NAME] # NULL

\* lines 360-373
LogoutBeginCleanup(c, t) ==
  /\ sessionStorage' = [sessionStorage EXCEPT ![t] = "true"]
  /\ localStorage' = LogoutClearShared
  /\ lpc' = [lpc EXCEPT ![c] = "removingSession"]

\* an end of logout() that a failed cleanup makes skip the sentinel's removal
LogoutEndSkippedOnError(c, outcome) ==
  /\ sessionStorage' = IF outcome = "storageError"
                         THEN sessionStorage
                         ELSE [sessionStorage EXCEPT ![ltab[c]] = NULL]
  /\ lpc' = [lpc EXCEPT ![c] = outcome]

\* lines 379-384
LogoutEnd(c, outcome) ==
  /\ sessionStorage' = [sessionStorage EXCEPT ![ltab[c]] = NULL]
  /\ lpc' = [lpc EXCEPT ![c] = outcome]

\* lines 333-358: logout() is called in tab t
LogoutStart(c, t) ==
  /\ lpc[c] = "idle"
  /\ \A d \in LogoutCalls : d < c => lpc[d] # "idle"
  /\ ltab' = [ltab EXCEPT ![c] = t]
  /\ UNCHANGED <<configVars, forageSession, forageLoginResponse, otherThanLogout>>
  /\ IF ~HasCurrentTenant
       THEN \* getLoginUrl() reads .name of undefined: the call rejects at once
            /\ lpc' = [lpc EXCEPT ![c] = "threw"]
            /\ UNCHANGED <<location, localStorage, sessionStorage, logoutRequests>>
       ELSE /\ location' = [location EXCEPT ![t] = LoginUrl]
            /\ IF LogoutAlreadyStarted(t)
                 THEN /\ lpc' = [lpc EXCEPT ![c] = "noop"]
                      /\ UNCHANGED <<localStorage, sessionStorage, logoutRequests>>
                 ELSE IF LogoutShouldCallBackend
                   THEN /\ logoutRequests' = logoutRequests + 1
                        /\ lpc' = [lpc EXCEPT ![c] = "awaitFetch"]
                        /\ UNCHANGED <<localStorage, sessionStorage>>
                   ELSE /\ LogoutBeginCleanup(c, t)
                        /\ UNCHANGED logoutRequests

\* line 348 resumes: the backend answered (any status: fetch resolves)
LogoutFetchResolves(c) ==
  /\ lpc[c] = "awaitFetch"
  /\ LogoutBeginCleanup(c, ltab[c])
  /\ UNCHANGED <<configVars, forageSession, forageLoginResponse, location,
                 ltab, logoutRequests, otherThanLogout>>

\* line 348 throws: the request itself failed (network error); the await sits
\* outside the try block, so the async function rejects here
LogoutFetchRejects(c) ==
  /\ lpc[c] = "awaitFetch"
  /\ lpc' = [lpc EXCEPT ![c] = "rejected"]
  /\ UNCHANGED <<configVars, storageVars, location, ltab, logoutRequests,
                 otherThanLogout>>

\* line 373: localforage.removeItem(SESSION_NAME) settles
LogoutRemoveSession(c) ==
  /\ lpc[c] = "removingSession"
  /\ UNCHANGED <<configVars, localStorage, forageLoginResponse, location,
                 ltab, logoutRequests, otherThanLogout>>
  /\ \E ok \in BOOLEAN :
       IF ok
         THEN /\ forageSession' = None
              /\ lpc' = [lpc EXCEPT ![c] = "removingResponse"]
              /\ UNCHANGED sessionStorage
         ELSE /\ LogoutEnd(c, "storageError")
              /\ UNCHANGED forageSession

\* line 374: localforage.removeItem(LOGIN_RESPONSE) settles, then lines 375-384
LogoutRemoveResponse(c) ==
  /\ lpc[c] = "removingResponse"
  /\ UNCHANGED <<configVars, localStorage, forageSession, location,
                 ltab, logoutRequests, otherThanLogout>>
  /\ \E ok \in BOOLEAN :
       IF ok
         THEN /\ forageLoginResponse' = None
              /\ LogoutEnd(c, "cleaned")
         ELSE /\ LogoutEnd(c, "storageError")
              /\ UNCHANGED forageLoginResponse

(***************************************************************************)
(* Entitlement and discovery data                                          *)
(***************************************************************************)
UNDEF == "undefined"

\* loginServices.js:27
HOST_APP_NAME == "folio_stripes"
\* the literal initStripes searches and filters by (loginServices.js:322,331)
STRIPES_CORE == "folio_stripes-core"

DISCOVERY_URL_KEY == "entitlementUrl"
HOST_LOCATION_KEY == "hostLocation"
REMOTE_LIST_KEY == "entitlements"

ModuleIds == {"A", "B", "C"}
ApplicationIds == {"app1", "app2"}

\* a JS object used as a map: its entries in insertion order, keys unique
MapHas(m, k) == \E i \in 1..Len(m) : m[i].key = k
MapIndex(m, k) == CHOOSE i \in 1..Len(m) : m[i].key = k
\* obj[k]; Missing stands for the undefined a lookup of an absent key yields
Missing ==
  [id |-> "undefined", name |-> "undefined", applicationId |-> "undefined",
   okapiInterfaces |-> "undefined", optionalOkapiInterfaces |-> "undefined",
   location |-> 0, module |-> "undefined"]
MapGet(m, k) == IF MapHas(m, k) THEN m[MapIndex(m, k)].val ELSE Missing
MapPut(m, k, v) ==
  IF MapHas(m, k)
    THEN [m EXCEPT ![MapIndex(m, k)] = [key |-> k, val |-> v]]
    ELSE Append(m, [key |-> k, val |-> v])
MapKeys(m) == {m[i].key : i \in 1..Len(m)}
\* Object.values
MapValues(m) == [i \in 1..Len(m) |-> m[i].val]

\* a module object of the entitlement response, with the fields later code adds
ModuleObject(mod) ==
  [id |-> mod.id, name |-> mod.name, applicationId |-> UNDEF,
   okapiInterfaces |-> UNDEF, optionalOkapiInterfaces |-> UNDEF,
   location |-> 0, module |-> UNDEF]

\* name.replace('_', '/') prefixed with '@': the first underscore only
ModuleNameOf(name) ==
  CASE name = "folio_stripes-core" -> "@folio/stripes-core"
    [] name = "folio_stripes" -> "@folio/stripes"
    [] name = "folio_users" -> "@folio/users"
    [] OTHER -> UNDEF

(***************************************************************************)
(* fetchEntitlements (loginServices.js:145-167)                            *)
(***************************************************************************)
RECURSIVE EachUiModule(_, _, _)
\* lines 150-155
EachUiModule(ent, mods, appId) ==
  IF mods = <<>> THEN ent
  ELSE EachUiModule(
         MapPut(ent, Head(mods).id,
                [ModuleObject(Head(mods)) EXCEPT !.applicationId = appId]),
         Tail(mods), appId)

RECURSIVE EachUiModuleDescriptor(_, _)
\* lines 156-163
EachUiModuleDescriptor(ent, descs) ==
  IF descs = <<>> THEN ent
  ELSE LET d == Head(descs) IN
    EachUiModuleDescriptor(
      IF MapHas(ent, d.id)
        THEN MapPut(ent, d.id,
                    [MapGet(ent, d.id) EXCEPT !.okapiInterfaces = d.requires,
                                              !.optionalOkapiInterfaces = d.optional])
        ELSE ent,
      Tail(descs))

RECURSIVE EachApplication(_, _)
\* lines 149-164
EachApplication(ent, elist) ==
  IF elist = <<>> THEN ent
  ELSE LET application == Head(elist) IN
    EachApplication(
      EachUiModuleDescriptor(
        EachUiModule(ent, application.uiModules, application.id),
        application.uiModuleDescriptors),
      Tail(elist))

fetchEntitlements(elist) == EachApplication(<<>>, elist)

(***************************************************************************)
(* fetchCustomDiscovery, fetchDefaultDiscovery, fetchDiscovery             *)
(* (loginServices.js:181-256)                                              *)
(***************************************************************************)
\* what the reconciliation would be without the test of lines 186 and 215
KnitUnconditionally(ent, entry) == TRUE

\* lines 186, 215: if (entitlement[entry.id])
KnitMatches(ent, entry) == MapHas(ent, entry.id)

RECURSIVE KnitEntries(_, _, _)
\* lines 185-191, 214-220: the forEach over json.discovery
KnitEntries(map, entries, ent) ==
  IF entries = <<>> THEN map
  ELSE LET entry == Head(entries) IN
    KnitEntries(
      IF KnitMatches(ent, entry)
        THEN MapPut(map, entry.id,
                    [MapGet(ent, entry.id) EXCEPT !.location = entry.location])
        ELSE map,
      Tail(entries), ent)

\* what GET {discoveryUrl} answers: every deployed entry
TenantDiscovery(dep) == dep
\* what GET /applications/{appId}/discovery answers
ApplicationDiscovery(dep, appId) ==
  SelectSeq(dep, LAMBDA e : e.app = appId)

fetchCustomDiscovery(dep, ent) == KnitEntries(<<>>, TenantDiscovery(dep), ent)

RECURSIVE Distinct(_, _)
\* Array.from(new Set(list)): first occurrences, in order
Distinct(list, seen) ==
  IF list = <<>> THEN <<>>
  ELSE IF Head(list) \in seen THEN Distinct(Tail(list), seen)
  ELSE <<Head(list)>> \o Distinct(Tail(list), seen \cup {Head(list)})

\* line 210
applicationIds(ent) ==
  Distinct([i \in 1..Len(ent) |-> ent[i].val.applicationId], {})

RECURSIVE EachApplicationId(_, _, _, _)
\* lines 212-221
EachApplicationId(map, appIds, dep, ent) ==
  IF appIds = <<>> THEN map
  ELSE EachApplicationId(
         KnitEntries(map, ApplicationDiscovery(dep, Head(appIds)), ent),
         Tail(appIds), dep, ent)

fetchDefaultDiscovery(dep, ent) ==
  EachApplicationId(<<>>, applicationIds(ent), dep, ent)

\* lines 251-253
NameModules(map) ==
  [i \in 1..Len(map) |->
     [key |-> map[i].key,
      val |-> [map[i].val EXCEPT !.module = ModuleNameOf(map[i].val.name)]]]

\* lines 238-256
fetchDiscovery(url, dep, ent) ==
  NameModules(IF url # NULL THEN fetchCustomDiscovery(dep, ent)
                            ELSE fetchDefaultDiscovery(dep, ent))

RECURSIVE QueriedByApplication(_, _)
\* the entries the queries of fetchDiscovery return, in the order received
QueriedByApplication(appIds, dep) ==
  IF appIds = <<>> THEN <<>>
  ELSE ApplicationDiscovery(dep, Head(appIds))
         \o QueriedByApplication(Tail(appIds), dep)

DiscoveryQueried(url, dep, ent) ==
  IF url # NULL THEN TenantDiscovery(dep)
                ELSE QueriedByApplication(applicationIds(ent), dep)

(***************************************************************************)
(* The resolver of StripesHub.js (fetchEntitlements 140-164,               *)
(* fetchDiscovery 191-212): one tenant-wide query and an orphan handler    *)
(***************************************************************************)
RECURSIVE HubEachApplication(_, _)
HubEachApplication(ent, elist) ==
  IF elist = <<>> THEN ent
  ELSE LET application == Head(elist) IN
    HubEachApplication(
      EachUiModuleDescriptor(
        EachUiModule(ent, application.uiModules, UNDEF),
        application.uiModuleDescriptors),
      Tail(elist))

HubFetchEntitlements(elist) == HubEachApplication(<<>>, elist)

RECURSIVE HubKnitEntries(_, _, _)
\* lines 199-207, the map built
HubKnitEntries(map, entries, uiMap) ==
  IF entries = <<>> THEN map
  ELSE LET entry == Head(entries) IN
    HubKnitEntries(
      IF MapHas(uiMap, entry.id)
        THEN MapPut(map, entry.id,
                    [MapGet(uiMap, entry.id) EXCEPT !.location = entry.location,
                                                    !.module = ModuleNameOf(entry.name)])
        ELSE map,
      Tail(entries), uiMap)

RECURSIVE HubHandled(_, _)
\* lines 199-207, the else branch: the ids handler() is called with, in order
HubHandled(entries, uiMap) ==
  IF entries = <<>> THEN <<>>
  ELSE (IF MapHas(uiMap, Head(entries).id) THEN <<>> ELSE <<Head(entries).id>>)
         \o HubHandled(Tail(entries), uiMap)

HubFetchDiscovery(dep, uiMap) == HubKnitEntries(<<>>, TenantDiscovery(dep), uiMap)

\* Array.prototype.find by name: <<>> or <<first match>>
FindByName(list, name) ==
  LET hits == SelectSeq(list, LAMBDA e : e.name = name)
  IN IF hits = <<>> THEN <<>> ELSE <<Head(hits)>>

(***************************************************************************)
(* initStripes (loginServices.js:318-337) and init (StripesHub.js:411-419) *)
(***************************************************************************)
HostUrl == "host-url"
CustomDiscoveryUrl == "discovery-url"

\* line 331: the filter that takes stripes out of the remote list
IsRemote(mod) == mod.name # STRIPES_CORE
RemoteList(disco) == SelectSeq(MapValues(disco), IsRemote)

\* a search that settles for the first module of the manifest
FirstModuleOf(disco) ==
  IF disco = <<>> THEN <<>> ELSE <<Head(MapValues(disco))>>

\* line 322
StripesCoreOf(disco) == FindByName(MapValues(disco), STRIPES_CORE)

\* the cache writes without the last one
CacheWritesWithoutRemoteList(url, hostLocation, disco) ==
  MapPut(MapPut(MapPut(<<>>,
    DISCOVERY_URL_KEY, IF url # NULL THEN url ELSE HostUrl),
    HOST_APP_NAME, "folio_stripes"),
    HOST_LOCATION_KEY, hostLocation)

\* lines 324-331: the four cache writes
CacheWrites(url, hostLocation, disco) ==
  MapPut(MapPut(MapPut(MapPut(<<>>,
    DISCOVERY_URL_KEY, IF url # NULL THEN url ELSE HostUrl),
    HOST_APP_NAME, "folio_stripes"),
    HOST_LOCATION_KEY, hostLocation),
    REMOTE_LIST_KEY, RemoteList(disco))

(***************************************************************************)
(* Backend data the resolution runs against                                *)
(***************************************************************************)
\* the name the module registry gives each module id
NameOf(id) ==
  CASE id = "A" -> STRIPES_CORE
    [] id = "B" -> HOST_APP_NAME
    [] OTHER -> "folio_users"

IdOrder == <<"A", "B", "C">>

UiModule(id) == [id |-> id, name |-> NameOf(id)]
UiModuleDescriptor(id) ==
  [id |-> id, requires |-> "users 16.0", optional |-> "configuration 2.0"]

\* the application descriptor of appId when f assigns the modules to applications
ApplicationDescriptor(appId, f) ==
  LET ids == SelectSeq(IdOrder, LAMBDA id : f[id] = appId)
  IN [id |-> appId,
      uiModules |-> [i \in 1..Len(ids) |-> UiModule(ids[i])],
      uiModuleDescriptors |-> [i \in 1..Len(ids) |-> UiModuleDescriptor(ids[i])]]

EntitlementResponseOf(f) ==
  SelectSeq(<<ApplicationDescriptor("app1", f), ApplicationDescriptor("app2", f)>>,
            LAMBDA a : a.uiModules # <<>>)

EntitlementResponses ==
  {EntitlementResponseOf(f) : f \in [ModuleIds -> {"none"} \cup ApplicationIds]}

\* a discovery entry; its location is told apart by its place in the listing
DiscoveryEntry(id, app, i) ==
  [id |-> id, name |-> NameOf(id), app |-> app, location |-> i]

Deployments ==
  UNION {{[i \in 1..n |-> DiscoveryEntry(g[i][1], g[i][2], i)] :
            g \in [1..n -> ModuleIds \X ApplicationIds]} : n \in 0..MaxDiscovery}

(***************************************************************************)
(* Resolution as a process                                                 *)
(***************************************************************************)
otherThanResolve ==
  <<tenantOptions, storageVars, location, logoutVars, landingVars, sessionVars,
    loginVars>>

\* loginServices.js:319 / StripesHub.js:408
ResolveFetchEntitlements ==
  /\ rpc = "start"
  /\ entitlement' = IF resolver = "hub" THEN HubFetchEntitlements(entitlementResponse)
                                        ELSE fetchEntitlements(entitlementResponse)
  /\ rpc' = "entitled"
  /\ UNCHANGED <<otherThanResolve, discoveryUrl, backendVars, resolver,
                 discovery, queried, handlerCalls, forageCache>>

\* loginServices.js:320: fetchDiscovery; no handler is passed or called
ResolveFetchDiscovery ==
  /\ rpc = "entitled"
  /\ resolver = "hook"
  /\ discovery' = fetchDiscovery(discoveryUrl, deployed, entitlement)
  /\ queried' = DiscoveryQueried(discoveryUrl, deployed, entitlement)
  /\ rpc' = "discovered"
  /\ UNCHANGED <<otherThanResolve, discoveryUrl, backendVars, resolver,
                 entitlement, handlerCalls, forageCache>>

\* StripesHub.js:409: fetchDiscovery(sessionTenant, uiMap, handleWithLog)
HubResolveFetchDiscovery ==
  /\ rpc = "entitled"
  /\ resolver = "hub"
  /\ discovery' = HubFetchDiscovery(deployed, entitlement)
  /\ queried' = TenantDiscovery(deployed)
  /\ handlerCalls' = HubHandled(TenantDiscovery(deployed), entitlement)
  /\ rpc' = "discovered"
  /\ UNCHANGED <<otherThanResolve, discoveryUrl, backendVars, resolver,
                 entitlement, forageCache>>

\* loginServices.js:322-336
ResolveCache ==
  /\ rpc = "discovered"
  /\ resolver = "hook"
  /\ LET stripesCore == StripesCoreOf(discovery) IN
       IF stripesCore # <<>>
         THEN /\ forageCache' = CacheWrites(discoveryUrl, stripesCore[1].location, discovery)
              /\ rpc' = "cached"
         ELSE /\ rpc' = "threw"
              /\ UNCHANGED forageCache
  /\ UNCHANGED <<otherThanResolve, discoveryUrl, backendVars, resolver,
                 entitlement, discovery, queried, handlerCalls>>

\* StripesHub.js:411-417; stripesCore is what fetchDiscovery found in the listing
HubResolveCache ==
  /\ rpc = "discovered"
  /\ resolver = "hub"
  /\ LET stripesCore == FindByName(TenantDiscovery(deployed), STRIPES_CORE) IN
       IF stripesCore # <<>>
         THEN /\ forageCache' = CacheWrites(discoveryUrl, stripesCore[1].location, discovery)
              /\ rpc' = "cached"
         ELSE \* stripesCore.location of undefined: caught by init
              /\ forageCache' =
                   MapPut(MapPut(<<>>, DISCOVERY_URL_KEY,
                                 IF discoveryUrl # NULL THEN discoveryUrl ELSE HostUrl),
                          HOST_APP_NAME, "folio_stripes")
              /\ rpc' = "threw"
  /\ UNCHANGED <<otherThanResolve, discoveryUrl, backendVars, resolver,
                 entitlement, discovery, queried, handlerCalls>>

LogoutIdle ==
  /\ lpc = [c \in LogoutCalls |-> "idle"]
  /\ ltab = [c \in LogoutCalls |-> "tab1"]
  /\ logoutRequests = 0

ResolveIdle ==
  /\ discoveryUrl = NULL
  /\ entitlementResponse = <<>>
  /\ deployed = <<>>
  /\ entitlement = <<>>
  /\ discovery = <<>>
  /\ queried = <<>>
  /\ handlerCalls = <<>>
  /\ forageCache = <<>>
  /\ resolver = "hook"
  /\ rpc = "off"

LandingIdle ==
  /\ ipc = "off"
  /\ session = None
  /\ selfOutcome = "none"
  /\ events = <<>>
  /\ pathname = AppRoot
  /\ unauthorizedPath = NULL
  /\ pendingApps = <<>>
  /\ pendingWrites = <<>>
  /\ injected = <<>>
  /\ pageAlive = TRUE
  /\ lastFetch = "none"

SessionIdle ==
  /\ now = 0
  /\ cpc = "idle"
  /\ cArgs = None
  /\ cCalledAt = 0
  /\ cInitTenant = NULL
  /\ cSession = None
  /\ cRead = None
  /\ tpc = "idle"
  /\ tArg = None
  /\ tRead = None
  /\ permInput = None
  /\ permOutput = None

AssetIdle ==
  /\ manifest = <<>>
  /\ elements = <<>>

ErrorIdle ==
  /\ badResponse = <<>>
  /\ defaultClientError = NULL
  /\ actionPayload = <<>>

UriIdle ==
  /\ uriTenant = <<>>
  /\ uriClientId = <<>>
  /\ uriBuilder = "hook"
  /\ uripc = "off"
  /\ authorizeUri = <<>>
  /\ callbackSearch = <<>>
  /\ exchangeUri = <<>>

LoginIdle ==
  /\ search = [tenant |-> NULL, client_id |-> NULL, code |-> NULL]
  /\ stripesOkapi = "undefined"
  /\ tenantGetter = "loginServices"
  /\ loginTenant = None
  /\ exchanger = "checked"
  /\ xpc = "off"
  /\ tokenRequests = 0
  /\ tokenResponse = None
  /\ initSessionCalls = <<>>
  /\ xResult = None
  /\ chain = "off"
  /\ selfRequests = 0
  /\ UriIdle
  /\ AssetIdle
  /\ ErrorIdle

InitResolve ==
  /\ LandingIdle
  /\ SessionIdle
  /\ LoginIdle
  /\ tenantOptions = <<Diku>>
  /\ localStorage = LocalLoggedIn
  /\ forageSession = Some(StoredSession)
  /\ forageLoginResponse = Some("payload")
  /\ sessionStorage = [t \in Tabs |-> NULL]
  /\ location = [t \in Tabs |-> AppRoot]
  /\ LogoutIdle
  /\ discoveryUrl \in {NULL, CustomDiscoveryUrl}
  /\ entitlementResponse \in EntitlementResponses
  /\ deployed \in Deployments
  /\ resolver \in {"hook", "hub"}
  /\ entitlement = <<>>
  /\ discovery = <<>>
  /\ queried = <<>>
  /\ handlerCalls = <<>>
  /\ forageCache = <<>>
  /\ rpc = "start"

NextResolve ==
  \/ ResolveFetchEntitlements
  \/ ResolveFetchDiscovery
  \/ HubResolveFetchDiscovery
  \/ ResolveCache
  \/ HubResolveCache

SpecResolve == InitResolve /\ [][NextResolve]_vars

InitLogout ==
  /\ tenantOptions \in TenantConfigs
  /\ \/ /\ localStorage = LocalLoggedIn
        /\ forageSession = Some(StoredSession)
        /\ forageLoginResponse = Some("payload")
     \/ /\ localStorage = LocalEmpty
        /\ forageSession = None
        /\ forageLoginResponse = None
  /\ sessionStorage = [t \in Tabs |-> NULL]
  /\ location = [t \in Tabs |-> AppRoot]
  /\ LogoutIdle
  /\ ResolveIdle
  /\ LandingIdle
  /\ SessionIdle
  /\ LoginIdle

NextLogout ==
  \/ \E c \in LogoutCalls, t \in Tabs : LogoutStart(c, t)
  \/ \E c \in LogoutCalls : LogoutFetchResolves(c)
  \/ \E c \in LogoutCalls : LogoutFetchRejects(c)
  \/ \E c \in LogoutCalls : LogoutRemoveSession(c)
  \/ \E c \in LogoutCalls : LogoutRemoveResponse(c)

SpecLogout == InitLogout /\ [][NextLogout]_vars

(***************************************************************************)
(* The landing initializer: useInitSession (part_003) followed by          *)
(* initStripes and loadStripes (loginServices.js), in tab1                 *)
(***************************************************************************)
LandingTab == "tab1"

\* what the validation would key on if any stored record were validated
SessionPresent(s) == IsSome(s)

\* part_003:78: session?.user?.id
SessionHasUserId(s) == IsSome(s) /\ Get(s).userId # ""

\* part_003:26-28
sessionIsValid(s) == IsSome(s) /\ Get(s).isAuthenticated

Redirected(ev) == \E i \in 1..Len(ev) : ev[i] = "redirect"

\* part_003:18-24: authenticate(), as seen in the event log
authenticate(ev) == Append(ev, "redirect")

\* part_003:80-96: the query function after the validation step, given the
\* events so far; the log it leaves and whether initStripes was started
AfterValidation(ev, s) ==
  IF sessionIsValid(s)
    THEN [events |-> Append(ev, "entitlementSent"), started |-> TRUE]
    ELSE [events |-> authenticate(ev), started |-> FALSE]

\* the state the synchronous remainder of the query function leaves
FinishInit(after) ==
  /\ events' = after.events
  /\ ipc' = "done"
  /\ rpc' = IF after.started THEN "fetchingEntitlements" ELSE rpc
  /\ location' = IF Redirected(after.events)
                   THEN [location EXCEPT ![LandingTab] = LoginUrl]
                   ELSE location
  /\ unauthorizedPath' = IF Redirected(after.events) /\ pathname # AppRoot
                           THEN pathname
                           ELSE unauthorizedPath

\* part_003:76-78 and 48-56: getSession() settles and the validation is started
InitSessionRead ==
  /\ ipc = "start"
  /\ pageAlive
  /\ UNCHANGED <<configVars, storageVars, logoutVars, backendVars, resolveVars, sessionVars,
                 loginVars,
                 resolver, pathname, pendingApps, pendingWrites, injected,
                 pageAlive, selfOutcome, lastFetch>>
  /\ \E readOk \in BOOLEAN :
       IF ~readOk
         THEN \* part_003:97-99
              /\ events' = Append(events, "alert")
              /\ ipc' = "done"
              /\ UNCHANGED <<session, rpc, location, unauthorizedPath>>
         ELSE /\ session' = forageSession
              /\ IF SessionHasUserId(forageSession)
                   THEN IF HasCurrentTenant
                          THEN /\ events' = Append(events, "selfSent")
                               /\ ipc' = "awaitSelf"
                               /\ UNCHANGED <<rpc, location, unauthorizedPath>>
                          ELSE \* getCurrentTenant().name throws inside the try
                               FinishInit(AfterValidation(authenticate(events),
                                                          forageSession))
                   ELSE FinishInit(AfterValidation(authenticate(events), forageSession))

\* part_003:57-69 and 80-96: the self-lookup settles
ValidateSessionSettles ==
  /\ ipc = "awaitSelf"
  /\ pageAlive
  /\ UNCHANGED <<configVars, storageVars, logoutVars, backendVars, resolveVars, sessionVars,
                 loginVars,
                 resolver, pathname, pendingApps, pendingWrites, injected,
                 pageAlive, session, lastFetch>>
  /\ \E outcome \in {"ok", "status", "network"} :
       /\ selfOutcome' = outcome
       /\ LET settled == Append(events, "selfSettled")
          IN FinishInit(AfterValidation(
               IF outcome = "ok" THEN settled ELSE authenticate(settled), session))

\* the navigation that location.replace() asked for takes place
Unload ==
  /\ pageAlive
  /\ location[LandingTab] = LoginUrl
  /\ ipc = "done"
  /\ pageAlive' = FALSE
  /\ UNCHANGED <<configVars, storageVars, location, logoutVars, backendVars, sessionVars,
                 loginVars,
                 resolveVars, reconVars, ipc, session, selfOutcome, events, pathname,
                 unauthorizedPath, pendingApps, pendingWrites, injected, lastFetch>>

otherThanInitStripes ==
  <<configVars, storageVars, location, logoutVars, backendVars, handlerCalls, sessionVars,
    loginVars,
    resolver, ipc, session, selfOutcome, pathname, unauthorizedPath, pageAlive>>

\* loginServices.js:121-135: a request of ffetch settles: a 2xx answer, another
\* status (ffetch throws) or a rejection
FetchOutcomes == {"ok", "status", "network"}

\* an ffetch that took every answer for a good one
ResponseArrived(outcome) == outcome # "network"

\* loginServices.js:122-128: ffetch goes on to res.json() when fetch resolved
\* and res.ok is true
ResponseOk(outcome) == outcome = "ok"

\* loginServices.js:322-336: initStripes once the discovery map is complete
InitStripesAfterDiscovery(ev, disco) ==
  LET stripesCore == StripesCoreOf(disco) IN
    IF stripesCore # <<>>
      THEN /\ pendingWrites' = CacheWrites(discoveryUrl, stripesCore[1].location, disco)
           /\ rpc' = "caching"
           /\ events' = ev
      ELSE /\ pendingWrites' = <<>>
           /\ rpc' = "threw"
           /\ events' = Append(ev, "initStripesThrew")

\* loginServices.js:145-167 and 238-244, 181-184, 207-213: the entitlement
\* request settles and the first discovery request is sent
InitStripesEntitlementsSettle ==
  /\ rpc = "fetchingEntitlements"
  /\ pageAlive
  /\ UNCHANGED <<otherThanInitStripes, queried, forageCache, injected>>
  /\ \E outcome \in FetchOutcomes :
       /\ lastFetch' = outcome
       /\ IF ~ResponseOk(outcome)
         THEN /\ rpc' = "threw"
              /\ events' = events \o <<"entitlementFailed", "initStripesThrew">>
              /\ UNCHANGED <<entitlement, discovery, pendingApps, pendingWrites>>
         ELSE LET ent == fetchEntitlements(entitlementResponse)
                  apps == IF discoveryUrl # NULL THEN <<CustomDiscoveryUrl>>
                                                 ELSE applicationIds(ent)
              IN /\ entitlement' = ent
                 /\ pendingApps' = apps
                 /\ discovery' = <<>>
                 /\ IF apps # <<>>
                      THEN /\ rpc' = "fetchingDiscovery"
                           /\ events' = events \o <<"entitlementSettled", "discoverySent">>
                           /\ UNCHANGED pendingWrites
                      ELSE InitStripesAfterDiscovery(
                             events \o <<"entitlementSettled", "discoveryDone">>,
                             NameModules(<<>>))

\* loginServices.js:184-193, 213-223 and 251-255: a discovery request settles
InitStripesDiscoverySettle ==
  /\ rpc = "fetchingDiscovery"
  /\ pageAlive
  /\ UNCHANGED <<otherThanInitStripes, entitlement, forageCache, injected>>
  /\ \E outcome \in FetchOutcomes :
       /\ lastFetch' = outcome
       /\ IF ~ResponseOk(outcome)
         THEN /\ rpc' = "threw"
              /\ events' = events \o <<"discoveryFailed", "initStripesThrew">>
              /\ UNCHANGED <<discovery, queried, pendingApps, pendingWrites>>
         ELSE LET entries == IF discoveryUrl # NULL
                               THEN TenantDiscovery(deployed)
                               ELSE ApplicationDiscovery(deployed, Head(pendingApps))
                  map == KnitEntries(discovery, entries, entitlement)
              IN /\ queried' = queried \o entries
                 /\ pendingApps' = Tail(pendingApps)
                 /\ IF Tail(pendingApps) # <<>>
                      THEN /\ discovery' = map
                           /\ rpc' = "fetchingDiscovery"
                           /\ events' = events \o <<"discoverySettled", "discoverySent">>
                           /\ UNCHANGED pendingWrites
                      ELSE /\ discovery' = NameModules(map)
                           /\ InitStripesAfterDiscovery(
                                events \o <<"discoverySettled", "discoveryDone">>,
                                NameModules(map))

\* loginServices.js:324-333 and 264: a localforage.setItem settles; after the
\* last one loadStripes requests the build manifest
InitStripesCacheWrite ==
  /\ rpc = "caching"
  /\ pageAlive
  /\ UNCHANGED <<otherThanInitStripes, entitlement, discovery, queried, pendingApps,
                 injected, lastFetch>>
  /\ \E ok \in BOOLEAN :
       IF ~ok
         THEN /\ rpc' = "threw"
              /\ events' = events \o <<"cacheFailed", "initStripesThrew">>
              /\ UNCHANGED <<forageCache, pendingWrites>>
         ELSE /\ forageCache' = MapPut(forageCache, Head(pendingWrites).key,
                                       Head(pendingWrites).val)
              /\ pendingWrites' = Tail(pendingWrites)
              /\ IF Tail(pendingWrites) # <<>>
                   THEN UNCHANGED <<rpc, events>>
                   ELSE /\ rpc' = "fetchingManifest"
                        /\ events' = Append(events, "manifestSent")

\* the assets the build manifest of stripes names, style sheets first
ManifestAssets == <<"main.css", "main.js">>

\* loginServices.js:264-298: the manifest request settles
LoadStripesManifestSettles ==
  /\ rpc = "fetchingManifest"
  /\ pageAlive
  /\ UNCHANGED <<otherThanInitStripes, entitlement, discovery, queried, pendingApps,
                 pendingWrites, forageCache, lastFetch>>
  /\ \E outcome \in {"ok", "network"} :
       IF outcome # "ok"
         THEN /\ rpc' = "threw"
              /\ events' = events \o <<"manifestFailed", "initStripesThrew">>
              /\ UNCHANGED injected
         ELSE /\ rpc' = "loaded"
              /\ injected' = ManifestAssets
              /\ events' = events \o <<"manifestSettled", "assetsInjected">>

(***************************************************************************)
(* The landing specification                                               *)
(***************************************************************************)
\* the records the durable tier may hold when the page loads: none, what
\* createSession left (with or without a user in the payload), and records
\* that are not authenticated
StoredSessions ==
  {None} \cup {Some(Session(a, u, "diku")) : a \in BOOLEAN, u \in {"", "u1"}}

CoreAndUsers == [id \in ModuleIds |-> IF id = "B" THEN "none" ELSE "app1"]
TwoApplications ==
  [id \in ModuleIds |-> CASE id = "A" -> "app1" [] id = "B" -> "none" [] OTHER -> "app2"]
UsersOnly == [id \in ModuleIds |-> IF id = "C" THEN "app1" ELSE "none"]

LandingEntitlements ==
  {EntitlementResponseOf(CoreAndUsers), EntitlementResponseOf(TwoApplications),
   EntitlementResponseOf(UsersOnly)}

LandingDeployments ==
  {<<DiscoveryEntry("A", "app1", 1), DiscoveryEntry("C", "app2", 2)>>,
   <<DiscoveryEntry("C", "app1", 1), DiscoveryEntry("A", "app1", 2)>>,
   <<DiscoveryEntry("B", "app1", 1)>>}

Init ==
  /\ tenantOptions \in {<<Diku>>, <<Diku, Other>>}
  /\ forageSession \in StoredSessions
  /\ localStorage = IF sessionIsValid(forageSession) THEN LocalLoggedIn ELSE LocalEmpty
  /\ forageLoginResponse = IF sessionIsValid(forageSession) THEN Some("payload") ELSE None
  /\ sessionStorage = [t \in Tabs |-> NULL]
  /\ location = [t \in Tabs |-> AppRoot]
  /\ LogoutIdle
  /\ SessionIdle
  /\ LoginIdle
  /\ discoveryUrl \in {NULL, CustomDiscoveryUrl}
  /\ entitlementResponse \in LandingEntitlements
  /\ deployed \in LandingDeployments
  /\ resolver = "hook"
  /\ entitlement = <<>>
  /\ discovery = <<>>
  /\ queried = <<>>
  /\ handlerCalls = <<>>
  /\ forageCache = <<>>
  /\ rpc = "off"
  /\ ipc = "start"
  /\ session = None
  /\ selfOutcome = "none"
  /\ events = <<>>
  /\ pathname \in {AppRoot, "/users"}
  /\ unauthorizedPath = NULL
  /\ pendingApps = <<>>
  /\ pendingWrites = <<>>
  /\ injected = <<>>
  /\ pageAlive = TRUE
  /\ lastFetch = "none"

Next ==
  \/ InitSessionRead
  \/ ValidateSessionSettles
  \/ Unload
  \/ InitStripesEntitlementsSettle
  \/ InitStripesDiscoverySettle
  \/ InitStripesCacheWrite
  \/ LoadStripesManifestSettles

Spec == Init /\ [][Next]_vars

(***************************************************************************)
(* Properties of the reconciliation (SpecResolve)                          *)
(***************************************************************************)
Resolved == rpc \in {"discovered", "cached", "threw"}

\* E: the entitled module ids; D: the ids the discovery queries returned
EntitledIds == MapKeys(entitlement)
DiscoveredIds == {queried[i].id : i \in 1..Len(queried)}

\* C8: once discovery has been reconciled, the key set of the manifest is exactly
\* the entitled ids intersected with the discovered ids, whether discovery was
\* fetched with the single query or application by application.
C8_ManifestIsIntersection ==
  Resolved => MapKeys(discovery) = EntitledIds \cap DiscoveredIds

\* a per-application reconciliation that dropped an entitled id, kept a shared
\* id and excluded a discovered id
C8_Witness ==
  /\ rpc = "discovered"
  /\ resolver = "hook"
  /\ discoveryUrl = NULL
  /\ EntitledIds \ DiscoveredIds # {}
  /\ DiscoveredIds \ EntitledIds # {}
  /\ MapKeys(discovery) # {}

\* the discovery entries received that have no entitlement, in the order received
Orphans ==
  LET orphaned == SelectSeq(queried, LAMBDA e : ~MapHas(entitlement, e.id))
  IN [i \in 1..Len(orphaned) |-> orphaned[i].id]

\* C9: after reconciliation the orphan handler has been called once for each
\* discovery entry without an entitlement, and for no other entry.
C9_OrphansHandledOnce ==
  Resolved => handlerCalls = Orphans

\* C10: no module of the cached remote-module list is a discovery entry named
\* with the reserved host-application name.
C10_HostNeverRemote ==
  (rpc = "cached" /\ MapHas(forageCache, REMOTE_LIST_KEY)) =>
    LET remotes == MapGet(forageCache, REMOTE_LIST_KEY) IN
      \A i \in 1..Len(queried) :
        queried[i].name = HOST_APP_NAME =>
          \A j \in 1..Len(remotes) : remotes[j].id # queried[i].id

(***************************************************************************)
(* Properties of logout() (SpecLogout)                                     *)
(***************************************************************************)
SessionCleared ==
  /\ forageSession = None
  /\ forageLoginResponse = None
  /\ localStorage[SESSION_NAME] = NULL
  /\ localStorage[TENANT_LOCAL_STORAGE_KEY] = NULL

\* C1: when a logout() call that reached the backend has finished, whether the
\* request resolved or rejected, the durable session record, the durable login
\* response, the shared session sentinel and the tenant cache are all cleared.
C1_LogoutAlwaysClears ==
  \A c \in LogoutCalls : lpc[c] \in {"cleaned", "rejected"} => SessionCleared

\* C2: a logout() call started in a tab where an earlier call is still in
\* flight issues no backend request and changes no storage.
C2_SecondLogoutIsNoop ==
  [][\A c \in LogoutCalls :
       (/\ lpc[c] = "idle"
        /\ lpc'[c] # "idle"
        /\ \E d \in LogoutCalls : /\ d # c
                                  /\ lpc[d] \in LogoutInFlight
                                  /\ ltab[d] = ltab'[c])
       => /\ logoutRequests' = logoutRequests
          /\ storageVars' = storageVars]_vars

\* C3: over all tabs, at most one request to /authn/logout is issued for one
\* login.
C3_LogoutRequestedOnce == logoutRequests <= 1

(***************************************************************************)
(* Properties of the landing initializer (Spec)                            *)
(***************************************************************************)
Happened(e) == \E i \in 1..Len(events) : events[i] = e

\* every occurrence of e is preceded by an occurrence of earlier
Precedes(earlier, e) ==
  \A i \in 1..Len(events) :
    events[i] = e => \E j \in 1..(i - 1) : events[j] = earlier

SelfLookups == Cardinality({i \in 1..Len(events) : events[i] = "selfSent"})

\* the record getSession() answered is present and not authenticated
ReadNotAuthenticated ==
  /\ ipc # "start"
  /\ IsSome(session)
  /\ ~Get(session).isAuthenticated

C5_PipelineOrder ==
  /\ Precedes("selfSettled", "entitlementSent")
  /\ Precedes("entitlementSettled", "manifestSent")
  /\ Precedes("discoveryDone", "manifestSent")
  /\ Precedes("discoveryDone", "assetsInjected")

\* C6: when the self-lookup has failed, the durable session record has been
\* removed by the time the redirect to the authorization endpoint is issued.
C6_FailedValidationPurges ==
  (selfOutcome \in {"status", "network"} /\ Redirected(events)) =>
    forageSession = None

\* C7: the resolver is started only after a successful self-lookup, and a run
\* that has invoked authenticate() starts no entitlement request, discovery
\* request or asset load.
C7_ResolverOnlyWhenValidated ==
  /\ Happened("entitlementSent") => selfOutcome = "ok"
  /\ Redirected(events) =>
       /\ ~Happened("entitlementSent")
       /\ ~Happened("discoverySent")
       /\ ~Happened("manifestSent")
       /\ ~Happened("assetsInjected")

MaxPerms == 1
MaxClock == 1

\* loginServices.js:446 and 497: 10 * 60 * 1000
TEN_MINUTES == 600000

\* an ISO-8601 string, told by the instant it denotes
toISOString(t) == <<"iso", t>>
\* new Date(iso).getTime()
DateGetTime(iso) == iso[2]

\* JS values handed to setTokenExpiry, by type
JsInt(n) == [kind |-> "integer", val |-> n]
JsOther(k) == [kind |-> k, val |-> 0]
\* a test that lets every number through, integer or not
NumberIsNumber(v) == v.kind \in {"integer", "float"}
\* Number.isInteger
NumberIsInteger(v) == v.kind = "integer"

\* a tokenExpiration object; <<>> stands for an ISO field that is not set
TokenExpiration(at, rt, atIso, rtIso) ==
  [atExpires |-> at, rtExpires |-> rt,
   accessTokenExpiration |-> atIso, refreshTokenExpiration |-> rtIso]

\* a session record that never says it is authenticated
SessionRecordNotAuthenticated(token, auth, uid, perms, tenant, te) ==
  [token |-> token, isAuthenticated |-> FALSE, userId |-> uid, perms |-> perms,
   tenant |-> tenant, tokenExpiration |-> te]

\* a stored session; "" stands for a field that is undefined, None for a
\* tokenExpiration that is not set
SessionRecord(token, auth, uid, perms, tenant, te) ==
  [token |-> token, isAuthenticated |-> auth, userId |-> uid, perms |-> perms,
   tenant |-> tenant, tokenExpiration |-> te]

\* { ...sess, tokenExpiration } of a sess that is null
NoSessionFields == SessionRecord("", FALSE, "", <<>>, "", None)

\* an entry of permissions.permissions: a string or a { permissionName } object
PermString(name) == [kind |-> "string", name |-> name]
PermObject(name) == [kind |-> "object", name |-> name]

\* what the object branch would yield if it keyed on the entry itself
PermKeyOfEntry(p) == IF p.kind = "string" THEN p.name ELSE "[object Object]"

\* loginServices.js:380: the key [p] of an entry in the string branch
PermKeyAsString(p) == IF p.kind = "string" THEN p.name ELSE "[object Object]"
\* loginServices.js:382: the key [p.permissionName] in the object branch
PermKeyAsObject(p) == IF p.kind = "object" THEN p.name ELSE "undefined"

RECURSIVE AssignPerms(_, _, _)
\* Object.assign({}, ...list.map(p => ({ [key(p)]: true })))
AssignPerms(perms, list, asString) ==
  IF list = <<>> THEN perms
  ELSE AssignPerms(
         MapPut(perms,
                IF asString THEN PermKeyAsString(Head(list))
                            ELSE PermKeyAsObject(Head(list)),
                TRUE),
         Tail(list), asString)

\* loginServices.js:374-384
PermsOf(list) ==
  IF Len(list) > 0
    THEN AssignPerms(<<>>, list, list[1].kind = "string")
    ELSE <<>>

\* loginServices.js:352-386; data.user is None or Some(id)
spreadUserWithPerms(data) ==
  [userId |-> IF IsSome(data.user) THEN Get(data.user) ELSE "",
   perms |-> PermsOf(data.permissions)]

\* a session tenant that prefers the payload's tenant to its originalTenantId
SessionTenantPayloadTenantFirst(data, tenant) ==
  IF data.tenant # "" THEN data.tenant
  ELSE IF data.originalTenantId # "" THEN data.originalTenantId
  ELSE tenant

\* loginServices.js:458: data.originalTenantId || data.tenant || tenant
SessionTenantOf(data, tenant) ==
  IF data.originalTenantId # "" THEN data.originalTenantId
  ELSE IF data.tenant # "" THEN data.tenant
  ELSE tenant

\* a fabricated expiry whose refresh token is good for no time at all
ResolveExpiryWithoutWindow(sessionData, data, clock) ==
  IF IsSome(sessionData) /\ IsSome(Get(sessionData).tokenExpiration)
    THEN Get(Get(sessionData).tokenExpiration)
  ELSE IF IsSome(data.tokenExpiration)
    THEN LET te == Get(data.tokenExpiration) IN
           TokenExpiration(DateGetTime(te.accessTokenExpiration),
                           DateGetTime(te.refreshTokenExpiration),
                           te.accessTokenExpiration, te.refreshTokenExpiration)
  ELSE TokenExpiration(-1, clock, <<>>, <<>>)

\* the resolution with the first two cases in the opposite order
ResolveExpiryPayloadFirst(sessionData, data, clock) ==
  IF IsSome(data.tokenExpiration)
    THEN LET te == Get(data.tokenExpiration) IN
           TokenExpiration(DateGetTime(te.accessTokenExpiration),
                           DateGetTime(te.refreshTokenExpiration),
                           te.accessTokenExpiration, te.refreshTokenExpiration)
  ELSE IF IsSome(sessionData) /\ IsSome(Get(sessionData).tokenExpiration)
    THEN Get(Get(sessionData).tokenExpiration)
  ELSE TokenExpiration(-1, clock + TEN_MINUTES, <<>>, <<>>)

\* a resolution that never looks at the record read from storage
ResolveExpiryIgnoringStore(sessionData, data, clock) ==
  IF IsSome(data.tokenExpiration)
    THEN LET te == Get(data.tokenExpiration) IN
           TokenExpiration(DateGetTime(te.accessTokenExpiration),
                           DateGetTime(te.refreshTokenExpiration),
                           te.accessTokenExpiration, te.refreshTokenExpiration)
  ELSE TokenExpiration(-1, clock + TEN_MINUTES, <<>>, <<>>)

\* loginServices.js:479-499: the expiry of the session, given the record read
\* from storage and the clock at that moment
ResolveExpiry(sessionData, data, clock) ==
  IF IsSome(sessionData) /\ IsSome(Get(sessionData).tokenExpiration)
    THEN Get(Get(sessionData).tokenExpiration)
  ELSE IF IsSome(data.tokenExpiration)
    THEN LET te == Get(data.tokenExpiration) IN
           TokenExpiration(DateGetTime(te.accessTokenExpiration),
                           DateGetTime(te.refreshTokenExpiration),
                           te.accessTokenExpiration, te.refreshTokenExpiration)
  ELSE TokenExpiration(-1, clock + TEN_MINUTES, <<>>, <<>>)

\* loginServices.js:401-406: the tokenExpiration setTokenExpiry builds
ExpiryOf(te) ==
  TokenExpiration(te.atExpires.val, te.rtExpires.val,
                  toISOString(te.atExpires.val), toISOString(te.rtExpires.val))

\* a write of the expiry alone, dropping what the record held
ReplaceByExpiry(sess, tokenExpiration) ==
  [NoSessionFields EXCEPT !.tokenExpiration = Some(tokenExpiration)]

\* loginServices.js:408-409: { ...sess, tokenExpiration }
MergeExpiry(sess, tokenExpiration) ==
  [(IF IsSome(sess) THEN Get(sess) ELSE NoSessionFields)
     EXCEPT !.tokenExpiration = Some(tokenExpiration)]


\* loginServices.js:444-447: the expiry the session object is built with,
\* before storage is read
InitialExpiry(data, clock) ==
  IF IsSome(data.tokenExpiration)
    THEN LET te == Get(data.tokenExpiration) IN
           TokenExpiration(DateGetTime(te.accessTokenExpiration),
                           DateGetTime(te.refreshTokenExpiration), <<>>, <<>>)
    ELSE TokenExpiration(-1, clock + TEN_MINUTES, <<>>, <<>>)

(***************************************************************************)
(* The inputs of the session store                                         *)
(***************************************************************************)
PermNames == {"perm.a"}
NameLists == UNION {[1..n -> PermNames] : n \in 0..MaxPerms}
AsStrings(names) == [i \in 1..Len(names) |-> PermString(names[i])]
AsObjects(names) == [i \in 1..Len(names) |-> PermObject(names[i])]
\* permissions.permissions of a payload: all strings or all objects
PermLists == {AsStrings(l) : l \in NameLists} \cup {AsObjects(l) : l \in NameLists}

\* tokenExpiration of a legacy login response
PayloadExpiry ==
  [accessTokenExpiration |-> toISOString(5000),
   refreshTokenExpiration |-> toISOString(9000)]

\* the user-with-permissions payloads: the response of login, of _self or of
\* the overridden-tenant lookup
Payloads ==
  [user : {None, Some("u1")},
   permissions : PermLists,
   tokenExpiration : {None, Some(PayloadExpiry)},
   originalTenantId : {"", "central"},
   tenant : {"", "member"}]

\* the tenant argument of createSession; "" when no tenant was resolved
LoginTenants == {"diku", ""}

\* what an earlier setTokenExpiry({atExpires: 3000, rtExpires: 4000}) stored
CachedExpiry == TokenExpiration(3000, 4000, toISOString(3000), toISOString(4000))

\* the session record in storage when the calls start
SessionStores ==
  {None,
   Some([NoSessionFields EXCEPT !.tokenExpiration = Some(CachedExpiry)]),
   Some(SessionRecord("tok0", TRUE, "u0", <<>>, "diku", None)),
   Some(SessionRecord("tok0", TRUE, "u0", <<>>, "diku", Some(CachedExpiry)))}

\* the values a caller may hand to setTokenExpiry as atExpires and as rtExpires
AtInputs == {JsInt(7000), JsOther("string")}
RtInputs == {JsInt(8000), JsOther("float"), JsOther("undefined")}

(***************************************************************************)
(* createSession and setTokenExpiry as processes over the shared storage   *)
(***************************************************************************)
otherThanSession ==
  <<configVars, sessionStorage, location, logoutVars, backendVars, resolveVars,
    reconVars, landingVars, permInput, permOutput, loginVars>>

createVars == <<cpc, cArgs, cCalledAt, cInitTenant, cSession, cRead>>
expiryVars == <<tpc, tArg, tRead>>

\* time that passes while a promise is pending
Elapse == \E d \in {0, 1} : now + d <= MaxClock /\ now' = now + d

\* loginServices.js:437-471: up to the first await
CreateSessionStart(tenant, token, data) ==
  /\ cpc = "idle"
  /\ cArgs' = Some([tenant |-> tenant, token |-> token, data |-> data])
  /\ cCalledAt' = now
  /\ LET up == spreadUserWithPerms(data) IN
       cSession' = Some(SessionRecord(token, TRUE, up.userId, up.perms,
                                      SessionTenantOf(data, tenant),
                                      Some(InitialExpiry(data, now))))
  /\ localStorage' = [localStorage EXCEPT ![SESSION_NAME] = "true"]
  /\ cpc' = "storingResponse"
  /\ UNCHANGED <<otherThanSession, forageSession, forageLoginResponse, now, cRead,
                 cInitTenant, expiryVars>>

\* loginServices.js:473: await localforage.setItem('loginResponse', data)
CreateSessionResponseStored ==
  /\ cpc = "storingResponse"
  /\ Elapse
  /\ forageLoginResponse' = Some(Get(cArgs).data)
  /\ cpc' = "readingSession"
  /\ UNCHANGED <<otherThanSession, localStorage, forageSession, cArgs, cCalledAt, cInitTenant,
                 cSession, cRead, expiryVars>>

\* loginServices.js:474-499: await localforage.getItem(SESSION_NAME), then the
\* choice of the expiry
CreateSessionRead ==
  /\ cpc = "readingSession"
  /\ Elapse
  /\ cRead' = forageSession
  /\ cSession' = Some([Get(cSession) EXCEPT !.tokenExpiration =
                         Some(ResolveExpiry(forageSession, Get(cArgs).data, now'))])
  /\ cpc' = "storingSession"
  /\ UNCHANGED <<otherThanSession, storageVars, cArgs, cCalledAt, cInitTenant, expiryVars>>

\* loginServices.js:502: the tenant argument of initStripes(config, tenant)
InitStripesTenant(args) == args.tenant

\* loginServices.js:501: await localforage.setItem(SESSION_NAME, session), then
\* the call of initStripes(config, tenant)
CreateSessionStored ==
  /\ cpc = "storingSession"
  /\ Elapse
  /\ forageSession' = cSession
  /\ cInitTenant' = InitStripesTenant(Get(cArgs))
  /\ cpc' = "initStripes"
  /\ UNCHANGED <<otherThanSession, localStorage, forageLoginResponse, cArgs,
                 cCalledAt, cSession, cRead, expiryVars>>

\* loginServices.js:502: await initStripes(config, tenant)
CreateSessionInitStripesSettles ==
  /\ cpc = "initStripes"
  /\ \E ok \in BOOLEAN : cpc' = IF ok THEN "done" ELSE "rejected"
  /\ UNCHANGED <<otherThanSession, storageVars, now, cArgs, cCalledAt, cInitTenant, cSession,
                 cRead, expiryVars>>

\* a storage promise of createSession rejects: createSession rejects
CreateSessionStorageFails ==
  /\ cpc \in {"storingResponse", "readingSession", "storingSession"}
  /\ cpc' = "rejected"
  /\ UNCHANGED <<otherThanSession, storageVars, now, cArgs, cCalledAt, cInitTenant, cSession,
                 cRead, expiryVars>>

\* loginServices.js:400-416: up to the first await, or the throw
SetTokenExpiryStart(te) ==
  /\ tpc = "idle"
  /\ tArg' = Some(te)
  /\ tpc' = IF NumberIsInteger(te.atExpires) /\ NumberIsInteger(te.rtExpires)
              THEN "reading" ELSE "typeError"
  /\ UNCHANGED <<otherThanSession, storageVars, now, createVars, tRead>>

\* loginServices.js:408: await getSession()
SetTokenExpiryRead ==
  /\ tpc = "reading"
  /\ Elapse
  /\ tRead' = Some(forageSession)
  /\ tpc' = "writing"
  /\ UNCHANGED <<otherThanSession, storageVars, createVars, tArg>>

\* loginServices.js:409-410: localforage.setItem(SESSION_NAME, val)
SetTokenExpiryWritten ==
  /\ tpc = "writing"
  /\ Elapse
  /\ forageSession' = Some(MergeExpiry(Get(tRead), ExpiryOf(Get(tArg))))
  /\ tpc' = "done"
  /\ UNCHANGED <<otherThanSession, localStorage, forageLoginResponse, createVars,
                 tArg, tRead>>

\* getSession() or setItem rejects: setTokenExpiry rejects
SetTokenExpiryStorageFails ==
  /\ tpc \in {"reading", "writing"}
  /\ tpc' = "rejected"
  /\ UNCHANGED <<otherThanSession, storageVars, now, createVars, tArg, tRead>>

InitSession ==
  /\ tenantOptions = <<Diku>>
  /\ forageSession \in SessionStores
  /\ localStorage = IF IsSome(forageSession) /\ Get(forageSession).isAuthenticated
                      THEN LocalLoggedIn ELSE LocalEmpty
  /\ forageLoginResponse = None
  /\ sessionStorage = [t \in Tabs |-> NULL]
  /\ location = [t \in Tabs |-> AppRoot]
  /\ LogoutIdle
  /\ ResolveIdle
  /\ LandingIdle
  /\ SessionIdle
  /\ LoginIdle

NextSession ==
  \/ \E tenant \in LoginTenants, data \in Payloads :
       CreateSessionStart(tenant, "tok1", data)
  \/ CreateSessionResponseStored
  \/ CreateSessionRead
  \/ CreateSessionStored
  \/ CreateSessionInitStripesSettles
  \/ CreateSessionStorageFails
  \/ \E at \in AtInputs, rt \in RtInputs :
       SetTokenExpiryStart([atExpires |-> at, rtExpires |-> rt])
  \/ SetTokenExpiryRead
  \/ SetTokenExpiryWritten
  \/ SetTokenExpiryStorageFails

SpecSession == InitSession /\ [][NextSession]_vars


(***************************************************************************)
(* Claims about the session store                                          *)
(***************************************************************************)
\* createSession has read the durable record and found an expiry in it
CachedExpiryRead == IsSome(cRead) /\ IsSome(Get(cRead).tokenExpiration)
\* the payload handed to createSession carries an expiry
PayloadHasExpiry == IsSome(Get(cArgs).data.tokenExpiration)
\* the step in which createSession writes the durable session record
CreateSessionWrites == cpc = "storingSession" /\ cpc' = "initStripes"
\* the expiry of the durable session record after the step
StoredExpiry == Get(Get(forageSession').tokenExpiration)

\* C12: when createSession found no cached expiry in the durable record and
\* its payload carries none, the record it stores has atExpires = -1 (already
\* expired) and an rtExpires strictly greater than the clock at the time of
\* the call, by at least ten minutes.
C12_FabricatedExpiry ==
  [][(CreateSessionWrites /\ ~CachedExpiryRead /\ ~PayloadHasExpiry) =>
       /\ StoredExpiry.atExpires = -1
       /\ StoredExpiry.rtExpires > cCalledAt
       /\ StoredExpiry.rtExpires >= cCalledAt + TEN_MINUTES]_vars

C12_Witness ==
  /\ cpc = "initStripes"
  /\ ~CachedExpiryRead
  /\ ~PayloadHasExpiry
  /\ now > cCalledAt
  /\ forageSession = cSession
  /\ Get(Get(forageSession).tokenExpiration).atExpires = -1


\* C13: the expiry of the record createSession stores is the tokenExpiration
\* of the durable record it read, unchanged, when that record has one;
\* otherwise the instants parsed from the payload's expiry, when the payload
\* carries one; otherwise atExpires = -1 with a refresh window of ten minutes
\* from a clock value between the call and the write.  A payload expiry never
\* replaces a cached one.
C13_ExpiryResolutionOrder ==
  [][CreateSessionWrites =>
       IF CachedExpiryRead
         THEN StoredExpiry = Get(Get(cRead).tokenExpiration)
       ELSE IF PayloadHasExpiry
         THEN LET payload == Get(Get(cArgs).data.tokenExpiration) IN
                /\ toISOString(StoredExpiry.atExpires) = payload.accessTokenExpiration
                /\ toISOString(StoredExpiry.rtExpires) = payload.refreshTokenExpiration
                /\ StoredExpiry.accessTokenExpiration = payload.accessTokenExpiration
                /\ StoredExpiry.refreshTokenExpiration = payload.refreshTokenExpiration
       ELSE /\ StoredExpiry.atExpires = -1
            /\ StoredExpiry.rtExpires - TEN_MINUTES \in cCalledAt..now']_vars

C13_Witness ==
  /\ cpc = "initStripes"
  /\ CachedExpiryRead
  /\ PayloadHasExpiry
  /\ forageSession = cSession
  /\ Get(forageSession).tokenExpiration = Some(CachedExpiry)


\* the argument of setTokenExpiry has a field that is not an integer
ExpiryArgNotIntegers(te) ==
  te.atExpires.kind # "integer" \/ te.rtExpires.kind # "integer"

\* C14: a setTokenExpiry whose atExpires or rtExpires is not an integer ends
\* with a type error, never reads the durable session record, and its step
\* leaves every storage tier as it was.
C14_TypeErrorTouchesNoStorage ==
  [][(IsSome(tArg') /\ ExpiryArgNotIntegers(Get(tArg'))) =>
       /\ tpc' = "typeError"
       /\ tRead' = None
       /\ (tpc' # tpc => storageVars' = storageVars)]_vars

C14_Witness ==
  /\ tpc = "typeError"
  /\ Get(tArg).atExpires.kind = "string"
  /\ Get(tArg).rtExpires.kind = "integer"
  /\ IsSome(forageSession)
  /\ tRead = None


\* the step in which setTokenExpiry writes the durable session record
SetTokenExpiryWrites == tpc = "writing" /\ tpc' = "done"

\* C15: with two integers, what setTokenExpiry writes is the session record
\* its read answered with tokenExpiration replaced: token, isAuthenticated,
\* user id, perms and tenant are those of the record read (absent when there
\* was none), and tokenExpiration holds the two raw timestamps and the ISO
\* strings of the same two instants.
C15_MergeKeepsOtherFields ==
  [][SetTokenExpiryWrites =>
       LET old == IF IsSome(Get(tRead)) THEN Get(Get(tRead)) ELSE NoSessionFields
           new == Get(forageSession')
           te == Get(tArg)
       IN /\ new.token = old.token
          /\ new.isAuthenticated = old.isAuthenticated
          /\ new.userId = old.userId
          /\ new.perms = old.perms
          /\ new.tenant = old.tenant
          /\ new.tokenExpiration =
               Some(TokenExpiration(te.atExpires.val, te.rtExpires.val,
                                    toISOString(te.atExpires.val),
                                    toISOString(te.rtExpires.val)))]_vars

C15_Witness ==
  /\ tpc = "done"
  /\ cpc = "idle"
  /\ IsSome(Get(tRead))
  /\ Get(Get(tRead)) = SessionRecord("tok0", TRUE, "u0", <<>>, "diku", Some(CachedExpiry))
  /\ forageSession =
       Some(SessionRecord("tok0", TRUE, "u0", <<>>, "diku",
                          Some(TokenExpiration(7000, 8000, toISOString(7000),
                                               toISOString(8000)))))


\* C16: a durable session record with isAuthenticated true has a non-empty
\* user id and a non-empty tenant, whatever payload createSession was given.
C16_AuthenticatedHasUserAndTenant ==
  (IsSome(forageSession) /\ Get(forageSession).isAuthenticated) =>
    /\ Get(forageSession).userId # ""
    /\ Get(forageSession).tenant # ""


(***************************************************************************)
(* spreadUserWithPerms on its own, over longer permission lists            *)
(***************************************************************************)
MaxNames == 3
NormalizeNames == PermNames \cup {"perm.b", "perm.c"}
NormalizeNameLists == UNION {[1..n -> NormalizeNames] : n \in 0..MaxNames}
NormalizeLists ==
  {AsStrings(l) : l \in NormalizeNameLists} \cup {AsObjects(l) : l \in NormalizeNameLists}

\* loginServices.js:438: const { user, perms } = spreadUserWithPerms(data)
Normalize ==
  /\ IsSome(permInput)
  /\ permOutput = None
  /\ permOutput' =
       Some(spreadUserWithPerms([user |-> Some("u1"),
                                 permissions |-> Get(permInput)]).perms)
  /\ UNCHANGED <<configVars, storageVars, location, logoutVars, backendVars,
                 resolveVars, reconVars, landingVars, now, createVars, expiryVars,
                 permInput, loginVars>>

InitNormalize ==
  /\ tenantOptions = <<Diku>>
  /\ localStorage = LocalEmpty
  /\ forageSession = None
  /\ forageLoginResponse = None
  /\ sessionStorage = [t \in Tabs |-> NULL]
  /\ location = [t \in Tabs |-> AppRoot]
  /\ LogoutIdle
  /\ ResolveIdle
  /\ LandingIdle
  /\ LoginIdle
  /\ now = 0
  /\ cpc = "idle"
  /\ cArgs = None
  /\ cCalledAt = 0
  /\ cInitTenant = NULL
  /\ cSession = None
  /\ cRead = None
  /\ tpc = "idle"
  /\ tArg = None
  /\ tRead = None
  /\ permInput \in {Some(l) : l \in NormalizeLists}
  /\ permOutput = None

NextNormalize == Normalize

SpecNormalize == InitNormalize /\ [][NextNormalize]_vars

\* the names of a permission list, in order, whatever its format
NamesOf(list) == [i \in 1..Len(list) |-> list[i].name]

\* C17: for every list of permission names, the mapping spreadUserWithPerms
\* answers is the same whether the list came as strings or as
\* {permissionName} objects; its keys are exactly the names of the list and
\* every value is true.
C17_NormalizationFormatInvariant ==
  IsSome(permOutput) =>
    LET names == NamesOf(Get(permInput))
        perms == Get(permOutput)
    IN /\ perms = spreadUserWithPerms([user |-> None,
                                       permissions |-> AsStrings(names)]).perms
       /\ perms = spreadUserWithPerms([user |-> None,
                                       permissions |-> AsObjects(names)]).perms
       /\ MapKeys(perms) = {names[i] : i \in 1..Len(names)}
       /\ \A i \in 1..Len(perms) : perms[i].val = TRUE

C17_Witness ==
  /\ IsSome(permOutput)
  /\ Get(permInput) = AsObjects(<<"perm.a", "perm.b", "perm.a">>)
  /\ MapKeys(Get(permOutput)) = {"perm.a", "perm.b"}


(***************************************************************************)
(* The tenant resolver: getLoginTenant in its three versions               *)
(***************************************************************************)
\* a JS value that is neither null/undefined nor the empty string
Truthy(v) == v \notin {NULL, ""}
\* a ||= b
OrAssign(a, b) == IF Truthy(a) THEN a ELSE b

\* what a call of getLoginTenant answers, or that it threw
TenantResult(name, clientId) == [threw |-> FALSE, name |-> name, clientId |-> clientId]
TenantThrew == [threw |-> TRUE, name |-> NULL, clientId |-> NULL]

\* the deprecated stripes.config.js::okapi values utils.js falls back to
OkapiTenant == [tenant |-> "okapi-tenant", clientId |-> "okapi-app"]

\* loginServices.js:69-79: the URL parameters and nothing else
getLoginTenantOfUrl(params) == TenantResult(params.tenant, params.client_id)

\* part_001:175-192: the URL parameters, then the only entry of tenantOptions
getLoginTenantOfConfig(params, options) ==
  IF Len(options) = 1
    THEN TenantResult(OrAssign(params.tenant, options[1].name),
                      OrAssign(params.client_id, options[1].clientId))
    ELSE TenantResult(params.tenant, params.client_id)

\* utils.js:103-124: as part_001, then stripesOkapi; the name is only
\* evaluated when a value is still missing, and utils.js does not declare it
getLoginTenantOfUtils(params, options, okapi) ==
  LET fromConfig == getLoginTenantOfConfig(params, options) IN
    IF Truthy(fromConfig.name) /\ Truthy(fromConfig.clientId) THEN fromConfig
    ELSE IF okapi = "undeclared" THEN TenantThrew
    ELSE IF okapi = "undefined" THEN
      TenantResult(IF Truthy(fromConfig.name) THEN fromConfig.name ELSE NULL,
                   IF Truthy(fromConfig.clientId) THEN fromConfig.clientId ELSE NULL)
    ELSE TenantResult(OrAssign(fromConfig.name, OkapiTenant.tenant),
                      OrAssign(fromConfig.clientId, OkapiTenant.clientId))

UrlTenants == {NULL, "", "other"}
UrlClientIds == {NULL, "other-app"}
UrlCodes == {NULL, "", "ABC123"}
Searches == [tenant : UrlTenants, client_id : UrlClientIds, code : UrlCodes]

otherThanTenant ==
  <<configVars, storageVars, location, logoutVars, backendVars, resolveVars,
    reconVars, landingVars, sessionVars, exchangeVars, uriVars, assetVars, errorVars>>

GetLoginTenant ==
  /\ loginTenant = None
  /\ loginTenant' =
       Some(CASE tenantGetter = "loginServices" -> getLoginTenantOfUrl(search)
              [] tenantGetter = "part_001" ->
                   getLoginTenantOfConfig(search, tenantOptions)
              [] OTHER -> getLoginTenantOfUtils(search, tenantOptions, stripesOkapi))
  /\ UNCHANGED <<otherThanTenant, search, stripesOkapi, tenantGetter>>

InitTenant ==
  /\ tenantOptions \in TenantConfigs
  /\ discoveryUrl = NULL
  /\ localStorage = LocalEmpty
  /\ forageSession = None
  /\ forageLoginResponse = None
  /\ sessionStorage = [t \in Tabs |-> NULL]
  /\ location = [t \in Tabs |-> AppRoot]
  /\ LogoutIdle
  /\ entitlementResponse = <<>>
  /\ deployed = <<>>
  /\ entitlement = <<>>
  /\ discovery = <<>>
  /\ queried = <<>>
  /\ handlerCalls = <<>>
  /\ forageCache = <<>>
  /\ resolver = "hook"
  /\ rpc = "off"
  /\ LandingIdle
  /\ SessionIdle
  /\ search \in Searches
  /\ stripesOkapi \in {"undeclared", "undefined", "set"}
  /\ tenantGetter \in {"loginServices", "part_001", "utils"}
  /\ loginTenant = None
  /\ exchanger = "checked"
  /\ xpc = "off"
  /\ tokenRequests = 0
  /\ tokenResponse = None
  /\ initSessionCalls = <<>>
  /\ xResult = None
  /\ chain = "off"
  /\ selfRequests = 0
  /\ UriIdle
  /\ AssetIdle
  /\ ErrorIdle

NextTenant == GetLoginTenant

SpecTenant == InitTenant /\ [][NextTenant]_vars

\* the URL carries neither a tenant nor a client_id parameter
NoUrlTenant == search.tenant = NULL /\ search.client_id = NULL

\* C18: the resolver answers the tenant and client_id of the URL when both
\* are there; without URL parameters it answers the only entry of the static
\* tenant map when the map has exactly one entry, and no tenant (no name, no
\* client id) otherwise, two or more entries included.
C18_TenantPrecedence ==
  IsSome(loginTenant) =>
    LET result == Get(loginTenant) IN
      /\ ~result.threw
      /\ (Truthy(search.tenant) /\ Truthy(search.client_id)) =>
           (result.name = search.tenant /\ result.clientId = search.client_id)
      /\ (NoUrlTenant /\ Len(tenantOptions) = 1) =>
           (result.name = tenantOptions[1].name
            /\ result.clientId = tenantOptions[1].clientId)
      /\ (NoUrlTenant /\ Len(tenantOptions) # 1) =>
           (result.name = NULL /\ result.clientId = NULL)


\* tenant resolution yields a tenant: from the URL parameters, or from a
\* static tenant map that has exactly one entry
TenantResolved == Truthy(search.tenant) \/ Len(tenantOptions) = 1

\* C19: while tenant resolution yields no tenant, no tab is sent to the
\* authorization endpoint.  StripesHub has no way to select a tenant, so every
\* redirect it issues must be one for a resolved tenant.
C19_NoRedirectWithoutTenant ==
  \A t \in Tabs : location[t] = LoginUrl => TenantResolved


(***************************************************************************)
(* The code exchange of the callback route: useExchangeCode, and the       *)
(* initSession it calls (part_002:36-54)                                   *)
(***************************************************************************)
\* part_002:27-28: 60 * 1000 and 2 * 60 * 1000
ONE_MINUTE == 60000
TWO_MINUTES == 120000

\* a response body, or the value an exchange threw
Body(kind, atIso, rtIso) ==
  [kind |-> kind, accessTokenExpiration |-> atIso, refreshTokenExpiration |-> rtIso]
\* the bodies of a 2xx answer of /authn/token: with and without expirations,
\* and the JSON null
TokenBodies ==
  {Body("token", toISOString(5000), toISOString(9000)),
   Body("token", <<>>, <<>>),
   Body("null", <<>>, <<>>)}
\* the body of a non-2xx answer
ErrorBody == Body("error", <<>>, <<>>)
MissingCode == Body("missingCode", <<>>, <<>>)
NetworkError == Body("networkError", <<>>, <<>>)
SyntaxError == Body("syntaxError", <<>>, <<>>)

TokenResponses ==
  {[ok |-> TRUE, body |-> b] : b \in TokenBodies}
    \cup {[ok |-> FALSE, body |-> ErrorBody]}

\* a code parameter that is there, empty or not
CodeParamGiven(code) == code # NULL
\* part_007:16, loginServices.js:664: if (code)
CodePresent(code) == Truthy(code)

\* part_002:40-43: the argument initSession hands to setTokenExpiry; the
\* defaults are taken from the clock when the component renders
ExpiryOfTokenData(tokenData, clock) ==
  [atExpires |-> JsInt(IF tokenData.accessTokenExpiration # <<>>
                         THEN DateGetTime(tokenData.accessTokenExpiration)
                         ELSE clock + ONE_MINUTE),
   rtExpires |-> JsInt(IF tokenData.refreshTokenExpiration # <<>>
                         THEN DateGetTime(tokenData.refreshTokenExpiration)
                         ELSE clock + TWO_MINUTES)]

otherThanExchange ==
  <<configVars, storageVars, location, logoutVars, backendVars, resolveVars,
    reconVars, landingVars, now, createVars, permInput, permOutput, search,
    stripesOkapi, tenantGetter, exchanger, uriVars, assetVars,
    errorVars>>

\* the tab the identity provider sent back to the callback route
ExchangeTab == "tab1"

\* part_007:9-22 and 50, loginServices.js:660-670 and 702: up to the fetch, or
\* the throw
ExchangeStart ==
  /\ xpc = "start"
  /\ loginTenant' = Some(getLoginTenantOfUrl(search))
  /\ IF CodePresent(search.code)
       THEN /\ tokenRequests' = tokenRequests + 1
            /\ xpc' = "fetching"
            /\ UNCHANGED xResult
       ELSE /\ xpc' = "missingCode"
            /\ xResult' = Some([threw |-> TRUE, value |-> MissingCode])
            /\ UNCHANGED tokenRequests
  /\ UNCHANGED <<otherThanExchange, expiryVars, tokenResponse, initSessionCalls,
                 chain, selfRequests>>

\* the fetch of /authn/token settles (part_007:22, loginServices.js:670);
\* loginServices.js:675-677 tests response.ok, part_007 does not
ExchangeFetchSettles ==
  /\ xpc = "fetching"
  /\ \/ /\ xpc' = "threw"
        /\ xResult' = Some([threw |-> TRUE, value |-> NetworkError])
        /\ UNCHANGED tokenResponse
     \/ \E response \in TokenResponses :
          /\ tokenResponse' = Some(response)
          /\ xpc' = IF exchanger = "checked" /\ ~response.ok
                      THEN "readingError" ELSE "readingBody"
          /\ UNCHANGED xResult
  /\ UNCHANGED <<otherThanExchange, expiryVars, loginTenant, tokenRequests,
                 initSessionCalls, chain, selfRequests>>

\* an exchange that ended by throwing the value
Thrown(value) == [threw |-> TRUE, value |-> value]
\* part_007:37, loginServices.js:705: return json
Returned(value) == [threw |-> FALSE, value |-> value]

\* part_007:27-37, loginServices.js:679-689: await response.json(), then
\* initSession(json), which starts setTokenExpiry when json is truthy
ExchangeBodyRead ==
  /\ xpc = "readingBody"
  /\ \E parsed \in BOOLEAN :
       IF parsed
         THEN LET json == Get(tokenResponse).body IN
                /\ initSessionCalls' = Append(initSessionCalls, json)
                /\ IF json.kind # "null"
                     THEN /\ tArg' = Some(ExpiryOfTokenData(json, now))
                          /\ tpc' = "reading"
                          /\ chain' = "expiry"
                     ELSE UNCHANGED <<tArg, tpc, chain>>
                /\ xpc' = "returned"
                /\ xResult' = Some(Returned(json))
         ELSE /\ xpc' = "threw"
              /\ xResult' = Some([threw |-> TRUE, value |-> SyntaxError])
              /\ UNCHANGED <<initSessionCalls, tArg, tpc, chain>>
  /\ UNCHANGED <<otherThanExchange, tRead, loginTenant, tokenRequests, tokenResponse,
                 selfRequests>>

\* loginServices.js:690-695: the catch reads the error response and throws it
ExchangeErrorRead ==
  /\ xpc = "readingError"
  /\ \E parsed \in BOOLEAN :
       xResult' = Some([threw |-> TRUE,
                        value |-> IF parsed THEN Get(tokenResponse).body
                                            ELSE SyntaxError])
  /\ xpc' = "threw"
  /\ UNCHANGED <<otherThanExchange, expiryVars, loginTenant, tokenRequests,
                 tokenResponse, initSessionCalls, chain, selfRequests>>

(***************************************************************************)
(* The promise chain initSession builds on setTokenExpiry                  *)
(* (part_002:44-52, OidcLanding.js:43-51)                                  *)
(***************************************************************************)
\* what the chain leaves alone besides the session store's variables
chainFrame ==
  <<tenantVars, exchanger, xpc, tokenRequests, tokenResponse, initSessionCalls,
    xResult, uriVars, assetVars, errorVars>>

\* tokenExpiration of a self-lookup response that carries one
SelfPayloadExpiry ==
  [accessTokenExpiration |-> toISOString(6000),
   refreshTokenExpiration |-> toISOString(9500)]

\* the responses of /users-keycloak/_self the chain is run with; as a rule
\* they carry no token expiration (loginServices.js:440-441)
SelfPayloads ==
  [user : {None, Some("u1")},
   permissions : {AsStrings(l) : l \in NameLists},
   tokenExpiration : {None, Some(SelfPayloadExpiry)},
   originalTenantId : {""},
   tenant : {"", "member"}]

\* what storeLogoutTenant would write if it kept the client id instead
TenantEntryOfClientId(tenantId) == "diku-app"

\* loginServices.js:98-100: what storeLogoutTenant(tenantId) writes under
\* TENANT_LOCAL_STORAGE_KEY
TenantEntry(tenantId) == IF tenantId = NULL THEN "{tenantId:null}" ELSE tenantId

\* part_002:44-46, OidcLanding.js:43-45: the first callback runs once
\* setTokenExpiry has resolved; the write to localStorage may throw
InitSessionStoreTenant ==
  /\ chain = "expiry"
  /\ tpc = "done"
  /\ \/ /\ localStorage' = [localStorage EXCEPT ![TENANT_LOCAL_STORAGE_KEY] =
                              TenantEntry(Get(loginTenant).name)]
        /\ chain' = "tenantStored"
     \/ /\ chain' = "rejected"
        /\ UNCHANGED localStorage
  /\ UNCHANGED <<configVars, sessionStorage, forageSession, forageLoginResponse,
                 location, logoutVars, backendVars, resolveVars, reconVars,
                 landingVars, sessionVars, chainFrame, selfRequests>>

\* setTokenExpiry rejected: no callback of the chain runs
InitSessionExpiryRejected ==
  /\ chain = "expiry"
  /\ tpc \in {"rejected", "typeError"}
  /\ chain' = "rejected"
  /\ UNCHANGED <<configVars, storageVars, location, logoutVars, backendVars,
                 resolveVars, reconVars, landingVars, sessionVars, chainFrame,
                 selfRequests>>

\* part_002:47-48, loginServices.js:549-550 and 578-586: the second callback
\* calls requestUserWithPerms, which sends the self-lookup
RequestUserWithPermsStart ==
  /\ chain = "tenantStored"
  /\ selfRequests' = selfRequests + 1
  /\ chain' = "lookup"
  /\ UNCHANGED <<configVars, storageVars, location, logoutVars, backendVars,
                 resolveVars, reconVars, landingVars, sessionVars, chainFrame>>

\* loginServices.js:550-558: the fetch of _self settles
SelfLookupSettles ==
  /\ chain = "lookup"
  /\ \E outcome \in {"ok", "status", "network"} :
       chain' = CASE outcome = "ok" -> "selfJson"
                  [] outcome = "status" -> "selfError"
                  [] OTHER -> "rejected"
  /\ UNCHANGED <<configVars, storageVars, location, logoutVars, backendVars,
                 resolveVars, reconVars, landingVars, sessionVars, chainFrame,
                 selfRequests>>

\* loginServices.js:556-557: the body of a non-2xx answer is thrown, or
\* reading it throws
SelfLookupErrorRead ==
  /\ chain = "selfError"
  /\ chain' = "rejected"
  /\ UNCHANGED <<configVars, storageVars, location, logoutVars, backendVars,
                 resolveVars, reconVars, landingVars, sessionVars, chainFrame,
                 selfRequests>>

\* loginServices.js:529-532: processSession reads the body and calls
\* createSession with the tenant of the URL
ProcessSessionCreates ==
  /\ chain = "selfJson"
  /\ \E data \in SelfPayloads :
       CreateSessionStart(Get(loginTenant).name, "tok1", data)

\* loginServices.js:530: resp.json() rejects
ProcessSessionJsonFails ==
  /\ chain = "selfJson"
  /\ cpc = "idle"
  /\ chain' = "rejected"
  /\ UNCHANGED <<configVars, storageVars, location, logoutVars, backendVars,
                 resolveVars, reconVars, landingVars, sessionVars, chainFrame,
                 selfRequests>>

\* part_002:49-52: createSession has resolved, and with it processSession and
\* requestUserWithPerms; the last callback replaces the location
InitSessionReplace ==
  /\ chain = "selfJson"
  /\ cpc = "done"
  /\ location' = [location EXCEPT ![ExchangeTab] = AppRoot]
  /\ chain' = "replaced"
  /\ UNCHANGED <<configVars, storageVars, logoutVars, backendVars, resolveVars,
                 reconVars, landingVars, sessionVars, chainFrame, selfRequests>>

\* createSession rejected: requestUserWithPerms rejects and the last callback
\* does not run
InitSessionCreateRejected ==
  /\ chain = "selfJson"
  /\ cpc = "rejected"
  /\ chain' = "rejected"
  /\ UNCHANGED <<configVars, storageVars, location, logoutVars, backendVars,
                 resolveVars, reconVars, landingVars, sessionVars, chainFrame,
                 selfRequests>>

InitExchange ==
  /\ tenantOptions = <<Diku>>
  /\ forageSession \in {None, Some(SessionRecord("tok0", TRUE, "u0", <<>>, "diku",
                                                 Some(CachedExpiry)))}
  /\ localStorage = IF IsSome(forageSession) THEN LocalLoggedIn ELSE LocalEmpty
  /\ forageLoginResponse = None
  /\ sessionStorage = [t \in Tabs |-> NULL]
  /\ location = [t \in Tabs |-> IF t = ExchangeTab THEN OidcLandingPath ELSE AppRoot]
  /\ LogoutIdle
  /\ ResolveIdle
  /\ LandingIdle
  /\ SessionIdle
  /\ search \in Searches
  /\ stripesOkapi = "undefined"
  /\ tenantGetter = "loginServices"
  /\ loginTenant = None
  /\ exchanger \in {"checked", "unchecked"}
  /\ xpc = "start"
  /\ tokenRequests = 0
  /\ tokenResponse = None
  /\ initSessionCalls = <<>>
  /\ xResult = None
  /\ chain = "off"
  /\ selfRequests = 0
  /\ UriIdle
  /\ AssetIdle
  /\ ErrorIdle

NextExchange ==
  \/ ExchangeStart
  \/ ExchangeFetchSettles
  \/ ExchangeBodyRead
  \/ ExchangeErrorRead
  \/ SetTokenExpiryRead
  \/ SetTokenExpiryWritten
  \/ SetTokenExpiryStorageFails
  \/ InitSessionStoreTenant
  \/ InitSessionExpiryRejected
  \/ RequestUserWithPermsStart
  \/ SelfLookupSettles
  \/ SelfLookupErrorRead
  \/ ProcessSessionCreates
  \/ ProcessSessionJsonFails
  \/ CreateSessionResponseStored
  \/ CreateSessionRead
  \/ CreateSessionStored
  \/ CreateSessionInitStripesSettles
  \/ CreateSessionStorageFails
  \/ InitSessionReplace
  \/ InitSessionCreateRejected

SpecExchange == InitExchange /\ [][NextExchange]_vars

\* C20: on a callback URL without an authorization code, the only step of
\* the exchange ends it with the missing-code error: no request goes to the
\* token endpoint, initSession is not called, setTokenExpiry is not started
\* and no storage tier changes.
C20_MissingCodeFailsAtOnce ==
  [][(search.code \in {NULL, ""}) =>
       /\ xpc' = "missingCode"
       /\ xResult' = Some([threw |-> TRUE, value |-> MissingCode])
       /\ tokenRequests' = 0
       /\ initSessionCalls' = <<>>
       /\ tpc' = "idle"
       /\ storageVars' = storageVars
       /\ forageCache' = forageCache]_vars

C20_Witness ==
  /\ xpc = "missingCode"
  /\ search.code = NULL
  /\ search.tenant = "other"
  /\ tokenRequests = 0
  /\ initSessionCalls = <<>>
  /\ IsSome(forageSession)

\* the tenant context of the callback URL is in localStorage: the tenant
\* parameter when the URL has one, an entry without a tenant when it has none
TenantPersisted ==
  /\ localStorage[TENANT_LOCAL_STORAGE_KEY] # NULL
  /\ search.tenant # NULL => localStorage[TENANT_LOCAL_STORAGE_KEY] = search.tenant

\* C21: after a successful code exchange the steps of the chain run strictly
\* in order, each starting only after the one before it completed: the tenant
\* context is persisted only once setTokenExpiry has resolved, the self-lookup
\* is sent only once the tenant context is persisted, createSession starts
\* only after the self-lookup was sent and answered, and the location is
\* replaced with the application root only once createSession has resolved.
C21_ChainStepsInOrder ==
  [][/\ (chain = "expiry" /\ chain' = "tenantStored") =>
          (tpc = "done" /\ selfRequests = 0 /\ cpc = "idle")
     /\ selfRequests' # selfRequests =>
          (tpc = "done" /\ TenantPersisted /\ cpc = "idle"
           /\ location[ExchangeTab] = OidcLandingPath)
     /\ (cpc = "idle" /\ cpc' # "idle") =>
          (tpc = "done" /\ TenantPersisted /\ selfRequests = 1
           /\ location[ExchangeTab] = OidcLandingPath)
     /\ location' # location =>
          (tpc = "done" /\ TenantPersisted /\ selfRequests = 1 /\ cpc = "done"
           /\ location'[ExchangeTab] = AppRoot)]_vars

C21_Witness ==
  /\ chain = "replaced"
  /\ xpc = "returned"
  /\ tpc = "done"
  /\ TenantPersisted
  /\ selfRequests = 1
  /\ cpc = "done"
  /\ location[ExchangeTab] = AppRoot

\* the token endpoint answered the exchange with a non-2xx response
TokenEndpointRefused == IsSome(tokenResponse) /\ ~Get(tokenResponse).ok

\* C22: when the token endpoint answers the code exchange with a non-2xx
\* response, the exchange ends by throwing the error payload to its caller,
\* initSession is never called, and neither setTokenExpiry nor any other
\* step that writes session state is started.
C22_RefusedExchangeRethrows ==
  TokenEndpointRefused =>
    /\ initSessionCalls = <<>>
    /\ tpc = "idle"
    /\ chain = "off"
    /\ cpc = "idle"
    /\ selfRequests = 0
    /\ IsSome(xResult) =>
         (Get(xResult).threw /\ Get(xResult).value \in {ErrorBody, SyntaxError})

\* a step of the chain has failed: setTokenExpiry, the tenant write, the
\* self-lookup, createSession or the module resolution it awaits
ChainStepFailed ==
  \/ chain = "rejected"
  \/ chain # "off" /\ tpc \in {"rejected", "typeError"}
  \/ chain # "off" /\ cpc = "rejected"

\* C23: the location of the callback tab is replaced with the application
\* root only when the chain has completed, and at that moment localforage
\* holds a session with isAuthenticated true; once a step of the chain has
\* failed the tab stays on the callback route.
C23_ReplaceOnlyOnCompletion ==
  /\ [][location' # location =>
          /\ location' = [location EXCEPT ![ExchangeTab] = AppRoot]
          /\ tpc = "done" /\ cpc = "done" /\ chain' = "replaced"
          /\ IsSome(forageSession')
          /\ Get(forageSession').isAuthenticated]_vars
  /\ [](ChainStepFailed => location[ExchangeTab] = OidcLandingPath)

C23_Witness ==
  /\ chain = "replaced"
  /\ location[ExchangeTab] = AppRoot
  /\ IsSome(forageSession)
  /\ Get(forageSession).isAuthenticated
  /\ Get(forageSession).token = "tok1"
  /\ IsSome(forageLoginResponse)

\* a chain that failed in the module resolution createSession awaits
C23_FailedWitness ==
  /\ chain = "rejected"
  /\ cpc = "rejected"
  /\ IsSome(forageSession)
  /\ Get(forageSession).token = "tok1"
  /\ location[ExchangeTab] = OidcLandingPath

(***************************************************************************)
(* Failures on the landing path (Spec)                                     *)
(***************************************************************************)
\* C24: every failure of the entitlement fetch, of a discovery fetch or of
\* the asset loading on the landing path reaches the top-level initializer,
\* which reports it with an alert: once initStripes has thrown on a page that
\* was not sent to login, the event log holds an alert.
C24_ResolutionFailuresReported ==
  (rpc = "threw" /\ Happened("initStripesThrew") /\ ~Happened("redirect"))
    => Happened("alert")

\* C25: a failure during the validation of the session, be it the read of
\* the stored session, a rejected self-lookup or a non-2xx answer to it, ends
\* in the redirect to login and is never shown to the user: the initializer
\* raises no alert, and a failed self-lookup leaves the tab on the login URL.
C25_ValidationFailuresRedirect ==
  ipc = "done" =>
    /\ ~Happened("alert")
    /\ selfOutcome \in {"status", "network"} =>
         (Redirected(events) /\ location[LandingTab] = LoginUrl)

(***************************************************************************)
(* The redirect URI: from getLoginUrl through the identity provider to the *)
(* code exchange.  A string is a sequence of characters; the fixed parts   *)
(* of the URLs are single elements of it.                                  *)
(***************************************************************************)
MaxUriLen == 2

\* ${window.location.protocol}//${window.location.host}
Origin == "https://folio.example"
\* StripesHub.js:269, loginServices.js:668
LandingPath == "/oidc-landing"
\* oidcLanding.js:328
LandingHtmlPath == "/oidc-landing.html"

\* the characters percent-encoding replaces, each with what it becomes
PctPairs ==
  {<<"&", "%26">>, <<"=", "%3D">>, <<"+", "%2B">>, <<"?", "%3F">>, <<" ", "%20">>,
   <<Origin, "https%3A%2F%2Ffolio.example">>,
   <<LandingPath, "%2Foidc-landing">>,
   <<LandingHtmlPath, "%2Foidc-landing.html">>}

PctEncodeChar(c) ==
  IF \E p \in PctPairs : p[1] = c THEN (CHOOSE p \in PctPairs : p[1] = c)[2] ELSE c
PctDecodeChar(c) ==
  IF \E p \in PctPairs : p[2] = c THEN (CHOOSE p \in PctPairs : p[2] = c)[1] ELSE c

\* StripesHub.js:269: encodeURIComponent
encodeURIComponent(str) == [i \in 1..Len(str) |-> PctEncodeChar(str[i])]

\* the serializer of URLSearchParams (part_007:18-22): a space becomes "+"
FormEncode(str) ==
  [i \in 1..Len(str) |-> IF str[i] = " " THEN "+" ELSE PctEncodeChar(str[i])]
\* the parser of a query string: "+" is a space, percent-encodings are decoded
FormDecode(str) ==
  [i \in 1..Len(str) |-> IF str[i] = "+" THEN " " ELSE PctDecodeChar(str[i])]

RECURSIVE SplitOn(_, _)
SplitOn(str, sep) ==
  IF \A i \in 1..Len(str) : str[i] # sep
    THEN <<str>>
    ELSE LET i == CHOOSE k \in 1..Len(str) :
                    str[k] = sep /\ \A j \in 1..(k - 1) : str[j] # sep
         IN <<SubSeq(str, 1, i - 1)>> \o SplitOn(SubSeq(str, i + 1, Len(str)), sep)

\* the raw value of the first parameter called key in a query string, if any
QueryGet(query, key) ==
  LET pairs == SplitOn(query, "&")
      named(i) == Len(pairs[i]) >= 1 /\ pairs[i][1] = key
                    /\ (Len(pairs[i]) >= 2 => pairs[i][2] = "=")
  IN IF \E i \in 1..Len(pairs) : named(i)
       THEN LET i == CHOOSE k \in 1..Len(pairs) :
                       named(k) /\ \A j \in 1..(k - 1) : ~named(j)
            IN Some(SubSeq(pairs[i], 3, Len(pairs[i])))
       ELSE None

\* loginServices.js:71-73: new URLSearchParams(location.search).get(key); null
\* when the parameter is absent
URLSearchParamsGet(query, key) ==
  LET raw == QueryGet(query, key) IN
    IF IsSome(raw) THEN Some(FormDecode(Get(raw))) ELSE None

\* a value inside a template literal: null prints as "null"
Interpolated(v) == IF IsSome(v) THEN Get(v) ELSE <<"null">>

\* StripesHub.js:269, loginServices.js:668:
\* `${protocol}//${host}/oidc-landing?tenant=${tenant}&client_id=${clientId}`
RedirectString(path, tenant, clientId) ==
  <<Origin, path, "?", "tenant", "=">> \o tenant \o <<"&", "client_id", "=">> \o clientId

\* StripesHub.js:267-270
getOIDCRedirectUri(tenant, clientId) ==
  encodeURIComponent(RedirectString(LandingPath, tenant, clientId))

\* StripesHub.js:282: the query of the URL getLoginUrl answers
LoginUrlQuery(tenant, clientId) ==
  <<"client_id", "=">> \o clientId \o <<"&", "response_type", "=", "code", "&",
    "redirect_uri", "=">> \o getOIDCRedirectUri(tenant, clientId)
    \o <<"&", "scope", "=", "openid">>

\* the query of a URI, without the "?"; empty when it has none
QueryOf(uri) ==
  IF \E i \in 1..Len(uri) : uri[i] = "?"
    THEN LET i == CHOOSE k \in 1..Len(uri) :
                    uri[k] = "?" /\ \A j \in 1..(k - 1) : uri[j] # "?"
         IN SubSeq(uri, i + 1, Len(uri))
    ELSE <<>>

\* part_007:18-20, loginServices.js:666-668 ("hook": tenant and client id
\* come from the URL) and oidcLanding.js:322-328 ("class": they come from the
\* configuration, oidcLanding.js:19-24): the redirect-uri parameter as built
ExchangeRedirect(builder, query, tenant, clientId) ==
  IF builder = "hook"
    THEN RedirectString(LandingPath,
                        Interpolated(URLSearchParamsGet(query, "tenant")),
                        Interpolated(URLSearchParamsGet(query, "client_id")))
    ELSE RedirectString(LandingHtmlPath, tenant, clientId)

\* part_007:18-22: the query of the request to /authn/token
TokenUrlQuery(code, redirect) ==
  <<"code", "=">> \o FormEncode(code) \o <<"&", "redirect-uri", "=">>
    \o FormEncode(redirect)

(***************************************************************************)
(* One login: the URL is built, the provider calls back, the code is       *)
(* exchanged                                                               *)
(***************************************************************************)
UriAlphabet == {"a", "&", "+"}
UriNames == UNION {[1..n -> UriAlphabet] : n \in 1..MaxUriLen}

otherThanUri ==
  <<configVars, storageVars, location, logoutVars, backendVars, resolveVars,
    reconVars, landingVars, sessionVars, tenantVars, exchangeVars, assetVars,
    errorVars, uriTenant, uriClientId, uriBuilder>>

\* StripesHub.js:278-283 and 334: the browser is sent to the authorization
\* endpoint, which reads redirect_uri off the query
GetLoginUrl ==
  /\ uripc = "login"
  /\ authorizeUri' =
       LET raw == QueryGet(LoginUrlQuery(uriTenant, uriClientId), "redirect_uri")
       IN IF IsSome(raw) THEN Some(FormDecode(Get(raw))) ELSE None
  /\ uripc' = "atProvider"
  /\ UNCHANGED <<otherThanUri, callbackSearch, exchangeUri>>

\* the provider sends the browser back to the redirect URI with a code
ProviderCallsBack ==
  /\ uripc = "atProvider"
  /\ IsSome(authorizeUri)
  /\ callbackSearch' = QueryOf(Get(authorizeUri)) \o <<"&", "code", "=", "ABC123">>
  /\ uripc' = "callback"
  /\ UNCHANGED <<otherThanUri, authorizeUri, exchangeUri>>

\* part_007:9-25: the exchange sends the code and the redirect URI, and the
\* token endpoint reads redirect-uri off the query
ExchangeSendsRedirect ==
  /\ uripc = "callback"
  /\ LET code == URLSearchParamsGet(callbackSearch, "code")
         sent == TokenUrlQuery(Interpolated(code),
                   ExchangeRedirect(uriBuilder, callbackSearch, uriTenant, uriClientId))
         raw == QueryGet(sent, "redirect-uri")
     IN exchangeUri' = IF IsSome(raw) THEN Some(FormDecode(Get(raw))) ELSE None
  /\ uripc' = "exchanged"
  /\ UNCHANGED <<otherThanUri, authorizeUri, callbackSearch>>

InitUri ==
  /\ tenantOptions = <<Diku>>
  /\ localStorage = LocalEmpty
  /\ forageSession = None
  /\ forageLoginResponse = None
  /\ sessionStorage = [t \in Tabs |-> NULL]
  /\ location = [t \in Tabs |-> AppRoot]
  /\ LogoutIdle
  /\ ResolveIdle
  /\ LandingIdle
  /\ SessionIdle
  /\ search = [tenant |-> NULL, client_id |-> NULL, code |-> NULL]
  /\ stripesOkapi = "undefined"
  /\ tenantGetter = "loginServices"
  /\ loginTenant = None
  /\ exchanger = "checked"
  /\ xpc = "off"
  /\ tokenRequests = 0
  /\ tokenResponse = None
  /\ initSessionCalls = <<>>
  /\ xResult = None
  /\ chain = "off"
  /\ selfRequests = 0
  /\ uriTenant \in UriNames
  /\ uriClientId \in UriNames
  /\ uriBuilder \in {"hook", "class"}
  /\ uripc = "login"
  /\ authorizeUri = None
  /\ callbackSearch = <<>>
  /\ exchangeUri = None
  /\ AssetIdle
  /\ ErrorIdle

NextUri ==
  \/ GetLoginUrl
  \/ ProviderCallsBack
  \/ ExchangeSendsRedirect

SpecUri == InitUri /\ [][NextUri]_vars

\* C26: for every tenant and client id, the redirect URI the token endpoint
\* receives with the code is the very URI the authorization endpoint received
\* as redirect_uri for that tenant and client id: same origin, same path,
\* same tenant and client_id parameters.
C26_RedirectUriRoundTrip ==
  uripc = "exchanged" => (IsSome(exchangeUri) /\ exchangeUri = authorizeUri)

\* C27: when the entitlement request or a discovery request is answered
\* with a non-2xx status, module resolution fails: initStripes throws, the
\* reconciled manifest is not completed, no cache entry is written and no
\* asset is injected.
C27_RefusedFetchIsFatal ==
  lastFetch = "status" =>
    /\ rpc = "threw"
    /\ Happened("initStripesThrew")
    /\ ~Happened("discoveryDone")
    /\ ~Happened("manifestSent")
    /\ forageCache = <<>>
    /\ pendingWrites = <<>>
    /\ injected = <<>>

\* a discovery request was refused after the entitlement request and an
\* earlier discovery request had been answered
C27_Witness ==
  /\ lastFetch = "status"
  /\ rpc = "threw"
  /\ Happened("discoverySettled")
  /\ Happened("discoveryFailed")
  /\ forageCache = <<>>
  /\ injected = <<>>

(***************************************************************************)
(* loadStripes on a build manifest (loginServices.js:263-299).  An import  *)
(* reference is a sequence of name parts, its last part the extension.     *)
(***************************************************************************)
MaxImports == 2

ImportRefs ==
  {<<"main", ".js">>, <<"vendor", ".js">>, <<"main", ".css">>, <<"logo", ".svg">>,
   <<"main", ".js", ".map">>}

\* imp.endsWith(suffix)
endsWith(imp, suffix) == Len(imp) > 0 /\ imp[Len(imp)] = suffix

\* a collection that takes every reference it is given
AddAlways(set, imp) == Append(set, imp)

\* Set.prototype.add: a Set keeps its members in insertion order, once each
SetAdd(set, imp) ==
  IF \E i \in 1..Len(set) : set[i] = imp THEN set ELSE Append(set, imp)

\* loginServices.js:271-277: the forEach over the imports of one entry point;
\* sets is [js, css]
RECURSIVE CollectImports(_, _)
CollectImports(sets, imports) ==
  IF imports = <<>> THEN sets
  ELSE LET imp == Head(imports)
           next == IF endsWith(imp, ".js")
                     THEN [sets EXCEPT !.js = SetAdd(sets.js, imp)]
                   ELSE IF endsWith(imp, ".css")
                     THEN [sets EXCEPT !.css = SetAdd(sets.css, imp)]
                   ELSE sets
       IN CollectImports(next, Tail(imports))

\* loginServices.js:268-278: the forEach over the entry points
RECURSIVE CollectEntrypoints(_, _)
CollectEntrypoints(sets, entrypoints) ==
  IF entrypoints = <<>> THEN sets
  ELSE CollectEntrypoints(CollectImports(sets, Head(entrypoints)), Tail(entrypoints))

\* loginServices.js:280-294: a link per style reference, then a script per
\* script reference
loadAssets(entrypoints) ==
  LET sets == CollectEntrypoints([js |-> <<>>, css |-> <<>>], entrypoints) IN
    [i \in 1..Len(sets.css) |-> [tag |-> "link", ref |-> sets.css[i]]]
      \o [i \in 1..Len(sets.js) |-> [tag |-> "script", ref |-> sets.js[i]]]

\* the imports of one entry point
ImportLists == UNION {[1..n -> ImportRefs] : n \in 0..MaxImports}
\* manifest.entrypoints of a build with two entry points
Manifests == [1..2 -> ImportLists]

\* loginServices.js:263-299, once the manifest was read
LoadAssets ==
  /\ elements = None
  /\ elements' = Some(loadAssets(manifest))
  /\ UNCHANGED <<configVars, storageVars, location, logoutVars, backendVars,
                 resolveVars, reconVars, landingVars, sessionVars, tenantVars,
                 exchangeVars, uriVars, manifest, errorVars>>

InitAssets ==
  /\ tenantOptions = <<Diku>>
  /\ localStorage = LocalEmpty
  /\ forageSession = None
  /\ forageLoginResponse = None
  /\ sessionStorage = [t \in Tabs |-> NULL]
  /\ location = [t \in Tabs |-> AppRoot]
  /\ LogoutIdle
  /\ ResolveIdle
  /\ LandingIdle
  /\ SessionIdle
  /\ search = [tenant |-> NULL, client_id |-> NULL, code |-> NULL]
  /\ stripesOkapi = "undefined"
  /\ tenantGetter = "loginServices"
  /\ loginTenant = None
  /\ exchanger = "checked"
  /\ xpc = "off"
  /\ tokenRequests = 0
  /\ tokenResponse = None
  /\ initSessionCalls = <<>>
  /\ xResult = None
  /\ chain = "off"
  /\ selfRequests = 0
  /\ UriIdle
  /\ manifest \in Manifests
  /\ elements = None
  /\ ErrorIdle

NextAssets == LoadAssets

SpecAssets == InitAssets /\ [][NextAssets]_vars

\* the references some entry point of the manifest imports
Imported ==
  UNION {{manifest[e][i] : i \in 1..Len(manifest[e])} : e \in 1..Len(manifest)}

\* how many of the appended elements carry the reference
TimesInjected(els, ref) == Cardinality({i \in 1..Len(els) : els[i].ref = ref})

SplitApplicationDescriptor(appId, fm, fd) ==
  LET mods == SelectSeq(IdOrder, LAMBDA id : fm[id] = appId)
      descs == SelectSeq(IdOrder, LAMBDA id : fd[id] = appId)
  IN [id |-> appId,
      uiModules |-> [i \in 1..Len(mods) |-> UiModule(mods[i])],
      uiModuleDescriptors |-> [i \in 1..Len(descs) |-> UiModuleDescriptor(descs[i])]]

\* json.applicationDescriptors of a tenant with two applications
SplitResponses ==
  {<<SplitApplicationDescriptor("app1", fm, fd),
     SplitApplicationDescriptor("app2", fm, fd)>> :
     fm \in [ModuleIds -> {"none"} \cup ApplicationIds],
     fd \in [ModuleIds -> {"none"} \cup ApplicationIds]}

InitEntitlements ==
  /\ LandingIdle
  /\ SessionIdle
  /\ LoginIdle
  /\ tenantOptions = <<Diku>>
  /\ localStorage = LocalLoggedIn
  /\ forageSession = Some(StoredSession)
  /\ forageLoginResponse = Some("payload")
  /\ sessionStorage = [t \in Tabs |-> NULL]
  /\ location = [t \in Tabs |-> AppRoot]
  /\ LogoutIdle
  /\ discoveryUrl = NULL
  /\ entitlementResponse \in SplitResponses
  /\ deployed = <<>>
  /\ resolver \in {"hook", "hub"}
  /\ entitlement = <<>>
  /\ discovery = <<>>
  /\ queried = <<>>
  /\ handlerCalls = <<>>
  /\ forageCache = <<>>
  /\ rpc = "start"

NextEntitlements == ResolveFetchEntitlements

SpecEntitlements == InitEntitlements /\ [][NextEntitlements]_vars

\* the ids some application of the response lists as a UI module
ListedModules ==
  UNION {{entitlementResponse[a].uiModules[i].id :
            i \in 1..Len(entitlementResponse[a].uiModules)} :
         a \in 1..Len(entitlementResponse)}

\* the descriptors of the response, over all applications
ListedDescriptors ==
  UNION {{entitlementResponse[a].uiModuleDescriptors[i] :
            i \in 1..Len(entitlementResponse[a].uiModuleDescriptors)} :
         a \in 1..Len(entitlementResponse)}

\* C29: flattening the entitlement response yields one record for every
\* module id some application lists among its UI modules and no other record
\* (a descriptor without a module creates none), and the record of a module
\* carries the interfaces of the descriptor with its id whenever the response
\* holds such a descriptor, in whichever application.
C29_FlatteningMergesById ==
  rpc = "entitled" =>
    /\ MapKeys(entitlement) = ListedModules
    /\ Len(entitlement) = Cardinality(ListedModules)
    /\ \A d \in ListedDescriptors :
         d.id \in ListedModules =>
           /\ MapGet(entitlement, d.id).okapiInterfaces = d.requires
           /\ MapGet(entitlement, d.id).optionalOkapiInterfaces = d.optional

\* the chain of initSession has started and has not ended
ChainInFlight == chain \in {"expiry", "tenantStored", "lookup", "selfJson", "selfError"}

\* C30: the exchange hands the token payload to its caller without waiting
\* for the chain of initSession: while the chain is in flight the exchange
\* has already returned the payload, and no later step, a failure of the
\* chain included, changes the result or turns it into an error.
C30_ResultBeforeChain ==
  /\ [](chain # "off" =>
          /\ xpc = "returned"
          /\ IsSome(xResult)
          /\ ~Get(xResult).threw
          /\ Get(xResult).value = Get(tokenResponse).body)
  /\ [][IsSome(xResult) => xResult' = xResult]_vars

\* the chain failed in the self-lookup, after the payload was returned
C30_Witness ==
  /\ chain = "rejected"
  /\ selfRequests = 1
  /\ cpc = "idle"
  /\ xpc = "returned"
  /\ xResult = Some(Returned(Body("token", toISOString(5000), toISOString(9000))))


(***************************************************************************)
(* Claims about the two storage tiers                                      *)
(***************************************************************************)
\* the sentinel of the event-emitting tier is set
SentinelPresent == localStorage[SESSION_NAME] # NULL
\* the durable tier holds an authenticated session record
DurablyLoggedIn == IsSome(forageSession) /\ Get(forageSession).isAuthenticated

\* C31: whenever the session sentinel exists in the event-emitting tier the
\* durable tier holds a session record with isAuthenticated true, at every
\* suspension point of createSession included.
C31_SentinelImpliesLoggedIn == SentinelPresent => DurablyLoggedIn

\* createSession is suspended at its first await: the sentinel is written,
\* the session record is not
C31_SentinelWithoutSession ==
  /\ cpc = "storingResponse"
  /\ SentinelPresent
  /\ forageSession = None


\* C32: the tenant of the session record createSession writes is the
\* payload's originalTenantId when the payload has one, else the payload's
\* tenant when it has one, else the login tenant createSession was called with.
C32_SessionTenantPrecedence ==
  [][CreateSessionWrites =>
       LET data == Get(cArgs).data
           stored == Get(forageSession').tenant IN
         /\ data.originalTenantId # "" => stored = data.originalTenantId
         /\ (data.originalTenantId = "" /\ data.tenant # "") => stored = data.tenant
         /\ (data.originalTenantId = "" /\ data.tenant = "") => stored = Get(cArgs).tenant]_vars

\* a payload with both fields was stored under its originalTenantId
C32_Witness ==
  /\ cpc = "initStripes"
  /\ Get(cArgs).data.originalTenantId = "central"
  /\ Get(cArgs).data.tenant = "member"
  /\ Get(cArgs).tenant = "diku"
  /\ IsSome(forageSession)
  /\ Get(forageSession).tenant = "central"


\* the calls of authenticate() the run has made
AuthenticateCalls == Cardinality({i \in 1..Len(events) : events[i] = "redirect"})

\* C33: one run of the initializer calls authenticate, the redirect to the
\* authorization endpoint, at most once, whatever the stored session is
\* (absent, without user id, not authenticated, failing its validation).
C33_AuthenticateAtMostOnce == AuthenticateCalls <= 1


(***************************************************************************)
(* logout() racing one setTokenExpiry call over the durable session record *)
(***************************************************************************)
\* the session record of a login whose expiry an earlier setTokenExpiry wrote
LoggedInRecords ==
  {SessionRecord("tok0", TRUE, "u0", <<>>, "diku", None),
   SessionRecord("tok0", TRUE, "u0", <<>>, "diku", Some(CachedExpiry))}

InitLogoutExpiry ==
  /\ tenantOptions = <<Diku>>
  /\ localStorage = LocalLoggedIn
  /\ forageSession \in {Some(r) : r \in LoggedInRecords}
  /\ forageLoginResponse = Some("payload")
  /\ sessionStorage = [t \in Tabs |-> NULL]
  /\ location = [t \in Tabs |-> AppRoot]
  /\ LogoutIdle
  /\ ResolveIdle
  /\ LandingIdle
  /\ SessionIdle
  /\ LoginIdle

\* the first logout() call, in either tab, and the token rotation's
\* setTokenExpiry, in any order
NextLogoutExpiry ==
  \/ \E t \in Tabs : LogoutStart(1, t)
  \/ LogoutFetchResolves(1)
  \/ LogoutFetchRejects(1)
  \/ LogoutRemoveSession(1)
  \/ LogoutRemoveResponse(1)
  \/ \E at \in AtInputs, rt \in RtInputs :
       SetTokenExpiryStart([atExpires |-> at, rtExpires |-> rt])
  \/ SetTokenExpiryRead
  \/ SetTokenExpiryWritten
  \/ SetTokenExpiryStorageFails

SpecLogoutExpiry == InitLogoutExpiry /\ [][NextLogoutExpiry]_vars

\* setTokenExpiry read the session record while there still was one
ReadBeforeRemoval == IsSome(tRead) /\ IsSome(Get(tRead))

\* C34: a logout() that runs while setTokenExpiry is suspended between its
\* read and its write of the session record still ends with no durable
\* session record: setTokenExpiry never re-creates a record logout removed.
C34_LogoutWinsOverSetTokenExpiry ==
  (ReadBeforeRemoval /\ lpc[1] = "cleaned") => forageSession = None


\* part_003:81-90: the tenant the landing flow hands to initStripes for a
\* stored session: getSessionTenant(session), which the destructuring keeps
LandingSessionTenant(s) == Get(s).tenant

\* C35: the tenant createSession resolves entitlements and discovery for
\* equals the tenant of the session record it stored, and so equals the tenant
\* the landing flow resolves modules for when it next loads that session.
C35_ResolutionTenantIsSessionTenant ==
  [][CreateSessionWrites =>
       /\ cInitTenant' = Get(forageSession').tenant
       /\ cInitTenant' = LandingSessionTenant(forageSession')]_vars


\* two values are the same, or both are missing (null, undefined or empty)
SameValue(a, b) == a = b \/ (~Truthy(a) /\ ~Truthy(b))
\* the answer's name and client id are those of the given source
BothFrom(result, name, clientId) ==
  SameValue(result.name, name) /\ SameValue(result.clientId, clientId)

\* C36: the name and the client id the tenant resolver answers come from one
\* source: both from the URL parameters or both from the single entry of
\* tenantOptions (or, in utils.js, both from the okapi fallback), never the
\* name from one source and the client id from another.
C36_TenantFromOneSource ==
  (IsSome(loginTenant) /\ tenantGetter # "loginServices" /\ ~Get(loginTenant).threw) =>
    \/ BothFrom(Get(loginTenant), search.tenant, search.client_id)
    \/ /\ Len(tenantOptions) = 1
       /\ BothFrom(Get(loginTenant), tenantOptions[1].name, tenantOptions[1].clientId)
    \/ /\ tenantGetter = "utils"
       /\ BothFrom(Get(loginTenant), OkapiTenant.tenant, OkapiTenant.clientId)


\* the reconciled manifest is complete and has no entry of the host application
ManifestWithoutHost ==
  /\ Happened("discoveryDone")
  /\ \A i \in 1..Len(discovery) : discovery[i].val.name # STRIPES_CORE

\* C37: when the reconciled manifest has no entry of the host application,
\* initStripes fails with an error, writes none of the cache entries (source
\* URL, host name, host location, remote list) and never starts to load assets.
C37_NoHostNoCacheNoAssets ==
  ManifestWithoutHost =>
    /\ rpc = "threw"
    /\ Happened("initStripesThrew")
    /\ forageCache = <<>>
    /\ pendingWrites = <<>>
    /\ ~Happened("manifestSent")
    /\ injected = <<>>

\* the manifest reconciled to the users module alone
C37_Witness ==
  /\ ManifestWithoutHost
  /\ discovery # <<>>
  /\ rpc = "threw"


\* the body of the token response the exchange read
TokenBody == Get(tokenResponse).body

\* C38: in the token-exchange flow the tokenExpiration of the session record
\* createSession writes is the one the expiry setter wrote: the timestamps of
\* the token response, or the defaults (one and two minutes after the clock
\* of the render) when the response has none, whatever expiry the self-lookup
\* payload carries.
C38_ExchangeExpiryWins ==
  [][(chain = "selfJson" /\ CreateSessionWrites) =>
       /\ StoredExpiry.atExpires = Get(tArg).atExpires.val
       /\ StoredExpiry.rtExpires = Get(tArg).rtExpires.val
       /\ StoredExpiry.atExpires =
            IF TokenBody.accessTokenExpiration # <<>>
              THEN DateGetTime(TokenBody.accessTokenExpiration)
              ELSE ONE_MINUTE
       /\ StoredExpiry.rtExpires =
            IF TokenBody.refreshTokenExpiration # <<>>
              THEN DateGetTime(TokenBody.refreshTokenExpiration)
              ELSE TWO_MINUTES
       /\ StoredExpiry.accessTokenExpiration = toISOString(StoredExpiry.atExpires)
       /\ StoredExpiry.refreshTokenExpiration = toISOString(StoredExpiry.rtExpires)]_vars

\* a session stored with the defaults although the self-lookup payload
\* carried an expiry of its own
C38_Witness ==
  /\ chain = "selfJson"
  /\ cpc = "initStripes"
  /\ TokenBody.accessTokenExpiration = <<>>
  /\ Get(cArgs).data.tokenExpiration = Some(SelfPayloadExpiry)
  /\ IsSome(forageSession)
  /\ Get(Get(forageSession).tokenExpiration).atExpires = ONE_MINUTE
  /\ Get(Get(forageSession).tokenExpiration).rtExpires = TWO_MINUTES


\* the logout() calls made in tab t so far
CallsIn(t) == {c \in LogoutCalls : lpc[c] # "idle" /\ ltab[c] = t}
\* every logout() call started in tab t has finished
AllLogoutsFinished(t) == \A c \in CallsIn(t) : lpc[c] \notin LogoutInFlight

\* C39: once every logout() call started in a tab has finished, the private
\* logout sentinel of that tab is absent, on every path (backend call made,
\* skipped or failed, storage cleanup failing), so that a later logout in the
\* tab is not suppressed by a stale sentinel.
C39_SentinelGoneAfterLogout ==
  \A t \in Tabs : AllLogoutsFinished(t) => sessionStorage[t] = NULL

\* a tab whose logout failed in the storage cleanup while a second call in
\* the same tab was suppressed
C39_Witness ==
  \E t \in Tabs :
    /\ AllLogoutsFinished(t)
    /\ \E c \in CallsIn(t) : lpc[c] = "storageError"
    /\ \E c \in CallsIn(t) : lpc[c] = "noop"
    /\ sessionStorage[t] = NULL


(***************************************************************************)
(* processBadResponse (loginServices.js:609-652, index.js:103-151) on a    *)
(* failed response                                                         *)
(***************************************************************************)
\* constants: defaultErrors
DEFAULT_LOGIN_CLIENT_ERROR == "default.error"
DEFAULT_LOGIN_SERVER_ERROR == "default.server.error"

\* what a call answers: a list of errors, or undefined
ErrorList(list) == [undefined |-> FALSE, list |-> list]
Undefined == [undefined |-> TRUE, list |-> <<>>]

\* loginServices.js:623-637: an object payload answers its errors field as it
\* is; a string payload is parsed, and a parse that fails or finds no errors
\* field answers the default
getLoginErrors(payload) ==
  IF payload.kind = "object"
    THEN IF IsSome(payload.errors) THEN ErrorList(Get(payload.errors)) ELSE Undefined
  ELSE IF ~payload.parses THEN ErrorList(<<DEFAULT_LOGIN_CLIENT_ERROR>>)
  ELSE IF IsSome(payload.errors) THEN ErrorList(Get(payload.errors))
  ELSE ErrorList(<<DEFAULT_LOGIN_CLIENT_ERROR>>)

\* loginServices.js:609-621
getProcessedErrors(response, status, clientError) ==
  CASE status = 400 -> ErrorList(<<clientError>>)
    [] status = 422 -> getLoginErrors(response)
    [] status \in {404, 500} -> ErrorList(<<DEFAULT_LOGIN_SERVER_ERROR>>)
    [] OTHER -> ErrorList(<<DEFAULT_LOGIN_CLIENT_ERROR>>)

\* loginServices.js:639-652: response.json() rejects on a body that is no
\* JSON, and reading errorMessage off a null body throws; both end in the catch
processBadResponse(response, clientErrorGiven) ==
  LET clientError == OrAssign(clientErrorGiven, DEFAULT_LOGIN_CLIENT_ERROR)
      responseBody == response.body
  IN IF responseBody.kind \in {"unparseable", "null"}
       THEN ErrorList(<<DEFAULT_LOGIN_CLIENT_ERROR>>)
       ELSE LET responsePayload ==
                  IF IsSome(responseBody.errorMessage)
                    THEN Get(responseBody.errorMessage)
                    ELSE [kind |-> "object", parses |-> TRUE,
                          errors |-> responseBody.errors]
            IN getProcessedErrors(responsePayload, response.status, clientError)

\* the errors field of a body, when it has one: empty or with one error
ErrorsFields == {None, Some(<<>>), Some(<<"username.incorrect">>)}
\* an errorMessage that is a string: JSON text or not
ErrorMessages ==
  {[kind |-> "string", parses |-> FALSE, errors |-> None]}
    \cup {[kind |-> "string", parses |-> TRUE, errors |-> e] : e \in ErrorsFields}
\* the bodies of a failed response
ResponseBodies ==
  {[kind |-> k, errorMessage |-> None, errors |-> None] : k \in {"unparseable", "null"}}
    \cup [kind : {"object"},
          errorMessage : {None} \cup {Some(m) : m \in ErrorMessages},
          errors : ErrorsFields]
Statuses == {400, 401, 404, 422, 500}

ProcessBadResponse ==
  /\ actionPayload = None
  /\ actionPayload' = Some(processBadResponse(badResponse, defaultClientError))
  /\ UNCHANGED <<configVars, storageVars, location, logoutVars, backendVars,
                 resolveVars, reconVars, landingVars, sessionVars, tenantVars,
                 exchangeVars, uriVars, assetVars, badResponse, defaultClientError>>

InitBadResponse ==
  /\ tenantOptions = <<Diku>>
  /\ localStorage = LocalEmpty
  /\ forageSession = None
  /\ forageLoginResponse = None
  /\ sessionStorage = [t \in Tabs |-> NULL]
  /\ location = [t \in Tabs |-> AppRoot]
  /\ LogoutIdle
  /\ ResolveIdle
  /\ LandingIdle
  /\ SessionIdle
  /\ search = [tenant |-> NULL, client_id |-> NULL, code |-> NULL]
  /\ stripesOkapi = "undefined"
  /\ tenantGetter = "loginServices"
  /\ loginTenant = None
  /\ exchanger = "checked"
  /\ xpc = "off"
  /\ tokenRequests = 0
  /\ tokenResponse = None
  /\ initSessionCalls = <<>>
  /\ xResult = None
  /\ chain = "off"
  /\ selfRequests = 0
  /\ UriIdle
  /\ AssetIdle
  /\ badResponse \in [status : Statuses, body : ResponseBodies]
  /\ defaultClientError \in {NULL, "forgot.password.error"}
  /\ actionPayload = None

NextBadResponse == ProcessBadResponse

SpecBadResponse == InitBadResponse /\ [][NextBadResponse]_vars

\* the body was read as a JSON object
BodyIsObject == badResponse.body.kind = "object"

\* C40: processBadResponse always resolves to a non-empty list of errors,
\* whatever the status and the body (no JSON, 400, 422 with or without an
\* errors field, 404, 500, another status); for a body that is read, status
\* 400 gives the caller's default client error, 404 and 500 give the default
\* server error and a status other than 400, 404, 422 and 500 gives the
\* default client error.
C40_AlwaysANonEmptyErrorList ==
  IsSome(actionPayload) =>
    LET result == Get(actionPayload) IN
      /\ ~result.undefined
      /\ result.list # <<>>
      /\ (BodyIsObject /\ badResponse.status = 400) =>
           result.list = <<OrAssign(defaultClientError, DEFAULT_LOGIN_CLIENT_ERROR)>>
      /\ (BodyIsObject /\ badResponse.status \in {404, 500}) =>
           result.list = <<DEFAULT_LOGIN_SERVER_ERROR>>
      /\ (BodyIsObject /\ badResponse.status = 401) =>
           result.list = <<DEFAULT_LOGIN_CLIENT_ERROR>>

====
